---- MODULE Spec2Model ----
(***************************************************************************)
(* Model of the repobase engine: the RepobaseEngine service (addRepo,      *)
(* removeRepo, syncRepo, syncAll), the Indexer service (indexRepo,         *)
(* indexChanges, removeIndex), the GitClient and the RepoStore, together   *)
(* with the remote, the working trees and the LanceDB "files" table they   *)
(* act on.                                                                 *)
(***************************************************************************)
EXTENDS Integers, Sequences, FiniteSets, Bags, TLC

VARIABLES
    repos,      \* RepoStore document (config.json): data.repos, a sequence of RepoConfig
    remote,     \* per repository: the commit the remote branch points to
    origin,     \* per repository: local ref origin/<branch> (NoCommit = no clone on disk)
    head,       \* per repository: commit of the working tree, HEAD (NoCommit = no clone on disk)
    disk,       \* per repository: working tree, path -> <<bytes>> or <<>>
    unreadable, \* set of <<repository, path>> whose file cannot be read
    table,      \* LanceDB table "files": the rows in insertion order
    clock,      \* wall clock (new Date()); advances with every operation started
    lastFull,   \* history: per repository, the state in which the last successful indexRepo ended
    proc        \* per worker: position and locals of the operation it runs

vars == <<repos, remote, origin, head, disk, unreadable, table, clock, lastFull, proc>>

-----------------------------------------------------------------------------
(* Bounds of the model. *)

MaxClock == 3

\* commands and calls that fail although they could have succeeded
MaxFaults == 1

-----------------------------------------------------------------------------
(* Values. *)

\* Option.some / Option.none
Some(x) == <<x>>
NoneOpt == <<>>
IsSome(o) == o # <<>>
Get(o) == o[1]

NoCommit == "no-clone"
\* stdout of `git rev-parse <ref>` when the command exits non-zero: the ref
\* name is echoed, not a commit hash
BadRef == "origin/main"

Commits == {"c1", "c2", "c3", "c4", "c5"}

Procs == {1, 2}

\* Repository URLs: owner, repository name, and whether the URL ends in ".git"
Urls == { [owner |-> "o", name |-> "r1", git |-> FALSE],
          [owner |-> "o", name |-> "r1", git |-> TRUE],
          [owner |-> "o", name |-> "r2", git |-> FALSE] }

deriveRepoId(url) == <<url.owner, url.name>>

RepoIds == { deriveRepoId(u) : u \in Urls }

\* A path is a sequence of segments (split on "/"); a segment is the sequence
\* of its parts split on ".".  ".git" is <<"", "git">>.
PA == << <<"a", "ts">> >>
PQ == << <<"it's", "md">> >>
PN == << <<"node_modules">>, <<"m", "js">> >>

\* all paths of the model, in the order git and the directory walk list them
PathOrder == << PA, PQ, PN >>

Paths == { PathOrder[i] : i \in 1..Len(PathOrder) }

\* parts that contain a single quote character
QuotedParts == {"it's"}

\* file contents, as byte sequences
TextA == <<97>>
TextB == <<98>>
Bin0  == <<0>>

MAX_FILE_SIZE == 65536

IgnoreDirs == { <<"node_modules">>, <<"", "git">>, <<"dist">>, <<"build">>,
                <<"", "next">>, <<"", "nuxt">>, <<"coverage">>, <<"__pycache__">>,
                <<"", "venv">>, <<"venv">>, <<"target">> }

IgnoreExts == { <<"jpg">>, <<"jpeg">>, <<"png">>, <<"gif">>, <<"ico">>, <<"svg">>,
                <<"webp">>, <<"mp4">>, <<"mp3">>, <<"wav">>, <<"ogg">>, <<"zip">>,
                <<"tar">>, <<"tar", "gz">>, <<"rar">>, <<"7z">>, <<"wasm">>,
                <<"exe">>, <<"dll">>, <<"so">>, <<"dylib">>, <<"bin">>, <<"pdf">>,
                <<"doc">>, <<"docx">>, <<"lock">>, <<"min", "js">>, <<"min", "css">>,
                <<"map">> }

IgnoreNames == { <<"package-lock", "json">>, <<"yarn", "lock">>, <<"pnpm-lock", "yaml">> }

-----------------------------------------------------------------------------
(* Pure helpers of the Indexer. *)

Min(a, b) == IF a < b THEN a ELSE b

Range(s) == { s[i] : i \in 1..Len(s) }

\* the last n elements of s
Suffix(s, n) == SubSeq(s, Len(s) - n + 1, Len(s))

\* fast-glob's `ignore: DEFAULT_IGNORE_PATTERNS` on a file path of the walk:
\* "**/<dir>/**" drops everything below a directory of that name,
\* "**/*.<ext>" every file whose name ends in .<ext>, "**/<name>" every file
\* of that name.
GlobIgnored(path) ==
    \/ \E i \in 1..(Len(path) - 1) : path[i] \in IgnoreDirs
    \/ LET name == path[Len(path)] IN
         \/ name \in IgnoreNames
         \/ \E e \in IgnoreExts : Len(name) > Len(e) /\ Suffix(name, Len(e)) = e

\* shouldIgnore: each pattern is turned into a regular expression by
\* replacing "**" by ".*", then "*" by "[^/]*" (which also rewrites the "*"
\* of the ".*" just produced), then "." by "\.", and tested unanchored.
\*   "**/<dir>/**"  becomes  \.[^/]*/<dir>/\.[^/]*
\*   "**/*.<ext>"   becomes  \.[^/]*/[^/]*\.<ext>
\*   "**/<name>"    becomes  \.[^/]*/<name>
\* so a path matches only if a segment containing a "." is directly followed
\* by the directory (itself followed by a segment starting with "."), by a
\* segment containing ".<ext>", or by a segment starting with <name>.
HasDot(seg) == Len(seg) >= 2

shouldIgnore(path) ==
    \E i \in 1..(Len(path) - 1) :
        /\ HasDot(path[i])
        /\ \/ /\ path[i + 1] \in IgnoreDirs
              /\ i + 2 <= Len(path)
              /\ HasDot(path[i + 2])
              /\ path[i + 2][1] = ""
           \/ \E e \in IgnoreExts : \E j \in 2..Len(path[i + 1]) :
                 /\ j + Len(e) - 1 <= Len(path[i + 1])
                 /\ SubSeq(path[i + 1], j, j + Len(e) - 1) = e
           \/ \E n \in IgnoreNames :
                 /\ Len(path[i + 1]) >= Len(n)
                 /\ SubSeq(path[i + 1], 1, Len(n)) = n

\* a path or repository id with a single quote makes the predicate
\* `id = '<repo>:<path>'` malformed, and the table rejects it
HasQuote(path) == \E i \in 1..Len(path) : \E j \in 1..Len(path[i]) : path[i][j] \in QuotedParts

\* a file name that closes the quote of a predicate and appends a condition
PI == << <<"x' OR '1'='1">> >>

\* parts that turn the predicates `path = '<path>'` and `id = '<repo>:<path>'`
\* into ones that hold for every row
InjectedParts == { "x' OR '1'='1" }

Injected(path) ==
    \E i \in 1..Len(path) : \E j \in 1..Len(path[i]) : path[i][j] \in InjectedParts

\* isBinary: a NUL byte in the first 1024 bytes, or more than 30% suspicious
\* bytes there (for an empty buffer 0/0 is NaN and the comparison is false)
Suspicious(byte) == byte < 7 \/ (byte > 13 /\ byte < 32) \/ byte = 255

isBinary(buffer) ==
    LET sample == SubSeq(buffer, 1, Min(Len(buffer), 1024))
        suspicious == Cardinality({ i \in 1..Len(sample) : Suspicious(sample[i]) })
    IN  \/ \E i \in 1..Len(sample) : sample[i] = 0
        \/ Len(sample) > 0 /\ suspicious * 10 > 3 * Len(sample)

\* hashBuffer: SHA-256, modelled as an injective encoding of the bytes
RECURSIVE hashBuffer(_)
hashBuffer(buffer) ==
    IF buffer = <<>> THEN 1
    ELSE hashBuffer(SubSeq(buffer, 1, Len(buffer) - 1)) * 257 + buffer[Len(buffer)] + 1

\* new TextDecoder().decode(buffer).slice(0, MAX_FILE_SIZE)
decodeContents(buffer) == SubSeq(buffer, 1, Min(Len(buffer), MAX_FILE_SIZE))

\* the record indexRepo and indexChanges insert for a file
FileRecord(repoId, path, buffer) ==
    [ id |-> <<repoId, path>>, repo |-> repoId, path |-> path,
      contents |-> decodeContents(buffer), hash |-> hashBuffer(buffer) ]

-----------------------------------------------------------------------------
(* The remote history: the tree of every commit. *)

Tree(a, q, n) == (PA :> a) @@ (PQ :> q) @@ (PN :> n)

EmptyTree == Tree(<<>>, <<>>, <<>>)

\* c2 leaves the tree of c1 as it is; c3 turns a.ts into a binary file,
\* rewrites it's.md and adds node_modules/m.js; c4 is the tree of c1 with
\* a.ts rewritten; c5 is the tree of c4 without a.ts
TreeOf(c) ==
    CASE c = "c1" -> Tree(<<TextA>>, <<TextA>>, <<>>)
      [] c = "c2" -> Tree(<<TextA>>, <<TextA>>, <<>>)
      [] c = "c3" -> Tree(<<Bin0>>, <<TextB>>, <<TextA>>)
      [] c = "c4" -> Tree(<<TextB>>, <<TextA>>, <<>>)
      [] c = "c5" -> Tree(<<>>, <<TextA>>, <<>>)
      [] OTHER -> EmptyTree

-----------------------------------------------------------------------------
(* Records. *)

\* { ...rec, ...update }
Upd(rec, update) ==
    [ k \in DOMAIN rec |-> IF k \in DOMAIN update THEN update[k] ELSE rec[k] ]

trackingMode(branch) == [ tag |-> "tracking", ref |-> branch ]

pinnedMode(ref) == [ tag |-> "pinned", ref |-> ref ]

\* the modes addRepo is called with: the default, and a pin
Modes == { trackingMode("main"), pinnedMode("v1") }

-----------------------------------------------------------------------------
(* RepoStore: load-modify-save of the list of RepoConfig. *)

StoreGetRepoNone(data, id) == NoneOpt

StoreGetRepo(data, id) ==
    LET found == SelectSeq(data, LAMBDA r : r.id = id)
    IN  IF found = <<>> THEN NoneOpt ELSE Some(found[1])

StoreAddRepo(data, repo) == Append(data, repo)

StoreUpdateRepoAll(data, id, update) ==
    [ i \in 1..Len(data) |-> Upd(data[i], update) ]

StoreUpdateRepo(data, id, update) ==
    [ i \in 1..Len(data) |-> IF data[i].id = id THEN Upd(data[i], update) ELSE data[i] ]

StoreRemoveRepoAll(data, id) == <<>>

StoreRemoveRepo(data, id) == SelectSeq(data, LAMBDA r : r.id # id)

-----------------------------------------------------------------------------
(* GitClient.  Every command ends in one of three ways: it exits with status *)
(* 0 ("ok"), it exits with a non-zero status ("nonzero"), or the process     *)
(* cannot be run ("error").  Command.exitCode, Command.string and            *)
(* Command.lines fail only in the last case, so only "error" becomes a       *)
(* GitError; after "nonzero" the caller receives whatever was printed.       *)

GitOutcomes(okPossible, mayFault) ==
    (IF okPossible THEN { "ok" } ELSE {})
        \cup (IF mayFault \/ ~okPossible THEN { "nonzero" } ELSE {})
        \cup (IF mayFault THEN { "error" } ELSE {})

IsCommit(c) == c \in Commits

\* one line of `git diff --name-status from..to` per path that differs,
\* split at the tab into status and path
DiffEntry(from, to, path) ==
    LET old == TreeOf(from)[path]
        new == TreeOf(to)[path]
    IN  [ status |-> IF old = new THEN "="
                     ELSE IF old = <<>> THEN "A"
                     ELSE IF new = <<>> THEN "D"
                     ELSE "M",
          path |-> path ]

DiffNameStatus(from, to) ==
    SelectSeq([ i \in 1..Len(PathOrder) |-> DiffEntry(from, to, PathOrder[i]) ],
              LAMBDA c : c.status # "=")

-----------------------------------------------------------------------------
(* The "files" table. *)

\* tbl.query().where(`repo = '<repoId>'`)
RowsOf(tbl, repoId) == SelectSeq(tbl, LAMBDA r : r.repo = repoId)

\* tbl.delete(`id = '<repoId>:<path>'`): the path is pasted into the predicate
\* as it is
tblDelete(tbl, repoId, path) ==
    IF Injected(path) THEN <<>>
    ELSE SelectSeq(tbl, LAMBDA r : r.id # <<repoId, path>>)

tblDeleteRepoNone(tbl, repoId) == tbl

\* tbl.delete(`repo = '<repoId>'`)
tblDeleteRepo(tbl, repoId) == SelectSeq(tbl, LAMBDA r : r.repo # repoId)

\* tbl.add(records)
tblAdd(tbl, records) == tbl \o records

\* the predicate `id = '<repoId>:<path>'` is rejected when it is malformed
DeleteRejected(repoId, path) == HasQuote(path)

\* new Map(existing.map((r) => [r.path, r.hash])): the last row of a path wins
existingByPath(existing) ==
    [ p \in { existing[i].path : i \in 1..Len(existing) } |->
        LET last == CHOOSE i \in 1..Len(existing) :
                        /\ existing[i].path = p
                        /\ \A j \in (i + 1)..Len(existing) : existing[j].path # p
        IN  existing[last].hash ]

StorePaths(tbl, repoId) == { r.path : r \in Range(RowsOf(tbl, repoId)) }

\* number of rows of a repository and path
RowCount(tbl, repoId, path) ==
    Len(SelectSeq(tbl, LAMBDA r : r.repo = repoId /\ r.path = path))

-----------------------------------------------------------------------------
(* indexRepo, scanning phase (pure part). *)

\* glob.default("**/*", { cwd, ignore: DEFAULT_IGNORE_PATTERNS, onlyFiles, dot })
GlobFiles(tree) ==
    SelectSeq(PathOrder, LAMBDA f : tree[f] # <<>> /\ ~GlobIgnored(f))

NeedsIndexChangedOnly(tree, locked, byPath, force, f) ==
    /\ f \notin locked
    /\ ~isBinary(Get(tree[f]))
    /\ (force \/ (f \in DOMAIN byPath /\ byPath[f] # hashBuffer(Get(tree[f]))))

NeedsIndexForced(tree, locked, byPath, force, f) ==
    /\ f \notin locked
    /\ ~isBinary(Get(tree[f]))

\* the loop over files: TRUE for a file that is queued for (re)embedding
NeedsIndex(tree, locked, byPath, force, f) ==
    /\ f \notin locked
    /\ ~isBinary(Get(tree[f]))
    /\ ~(~force /\ f \in DOMAIN byPath /\ byPath[f] = hashBuffer(Get(tree[f])))

ScanToIndex(tree, locked, byPath, force) ==
    LET files == GlobFiles(tree)
        queued == SelectSeq(files, LAMBDA f : NeedsIndex(tree, locked, byPath, force, f))
    IN  [ i \in 1..Len(queued) |->
            [ path |-> queued[i], buffer |-> Get(tree[queued[i]]) ] ]

ScanSkipped(tree, locked, byPath, force) ==
    Len(GlobFiles(tree)) - Len(ScanToIndex(tree, locked, byPath, force))

ScanToDeleteNone(tree, byPath) == <<>>

\* [...existingByPath.keys()].filter((p) => !seenPaths.has(p))
ScanToDelete(tree, byPath) ==
    LET seenPaths == Range(GlobFiles(tree))
    IN  SelectSeq(PathOrder, LAMBDA p : p \in DOMAIN byPath /\ p \notin seenPaths)

-----------------------------------------------------------------------------
(* Workers.  A worker runs one operation of the engine at a time; pc is its  *)
(* position in the operation and the other fields are the operation's locals *)
(* and what it has observed so far.                                          *)

NoId == <<>>

IdleProc ==
    [ kind |-> "none",          \* operation: addRepo, removeRepo, syncRepo, syncAll
      pc |-> "done",
      status |-> "none",        \* running, ok, fail
      error |-> "none",         \* tag of the error the operation failed with
      id |-> NoId,              \* repository being processed
      mode |-> trackingMode("main"),
      repo |-> NoneOpt,         \* RepoConfig read by store.getRepo
      remoteHead |-> "none",    \* syncRepo: remoteHead; addRepo: currentCommit
      changes |-> <<>>,         \* result of git.diffNameStatus
      queue |-> <<>>,           \* repositories still to sync, current one first
      results |-> <<>>,         \* SyncResults collected so far
      result |-> NoneOpt,       \* SyncResult of the current repository
      scope |-> "none",         \* ingestion running: full (indexRepo), changed (indexChanges)
      force |-> FALSE,
      toIndex |-> <<>>,
      toDelete |-> <<>>,
      i |-> 1,
      skipped |-> 0,
      indexed |-> 0,
      summary |-> NoneOpt,      \* IndexSummary of the last ingestion
      log |-> <<>>,             \* calls made for the current repository, in order
      faults |-> 0,             \* commands and calls that have failed so far
      gitFailed |-> FALSE,      \* a git command of the current sync did not exit with 0
      stepFailed |-> FALSE,     \* a step of the current sync failed
      repos0 |-> <<>>,          \* data.repos when the current sync began
      table0 |-> <<>>,          \* table when the current sync or ingestion began
      tree0 |-> <<>>,           \* HEAD and working tree when the current sync began
      rerun |-> FALSE ]         \* indexRepo began in the state the previous indexRepo ended in

SyncKinds == { "syncRepo", "syncAll" }

Resting(p) == proc[p].pc = "done"

Set(p, update) == proc' = [ proc EXCEPT ![p] = Upd(@, update) ]

\* the operation fails with the given error
Failure(err) == [ pc |-> "done", status |-> "fail", error |-> err ]

Logged(p, event) == Append(proc[p].log, event)

\* every operation started and every change of the environment takes time
Tick == clock < MaxClock /\ clock' = clock + 1

Snapshot(id) == <<head[id], disk[id]>>

MayFault(p) == proc[p].faults < MaxFaults

\* one more command or call has failed
Fault(p) == [ faults |-> proc[p].faults + 1 ]

\* a call that succeeds (TRUE) or fails
Chance(p) == IF MayFault(p) THEN BOOLEAN ELSE { TRUE }

\* the embeddings and tbl.add: both succeed, or one of them fails
InsertOutcomes(p) == IF MayFault(p) THEN { "ok", "embedFailed", "addFailed" } ELSE { "ok" }

\* the locals of an operation that starts
Begin(p, locals) == Upd(IdleProc, locals @@ [ faults |-> proc[p].faults ])

\* what a worker has seen of a git command that did not fail to run
Seen(p, out) ==
    [ faults |-> IF out = "ok" THEN proc[p].faults ELSE proc[p].faults + 1,
      gitFailed |-> proc[p].gitFailed \/ out # "ok",
      stepFailed |-> proc[p].stepFailed \/ out # "ok" ]

\* the unreadable files of a repository
Locked(id) == { x \in unreadable : x[1] = id }

FullState(id) == << disk[id], { x \in unreadable : x[1] = id }, RowsOf(table, id) >>

-----------------------------------------------------------------------------
(* syncRepo and syncAll. *)

IsPinnedNever(repo) == FALSE

IsPinned(repo) == repo.mode.tag = "pinned"

needsUpdateAlways(previousCommit, remoteHead) == TRUE

\* Option.match(previousCommit, { onNone: () => true, onSome: (prev) => prev !== remoteHead })
needsUpdate(previousCommit, remoteHead) ==
    IF IsSome(previousCommit) THEN Get(previousCommit) # remoteHead ELSE TRUE

ChooseScopeChanged(changes) == "changed"

\* if (changes.length > 0) indexChanges else indexRepo
ChooseScope(changes) == IF Len(changes) > 0 THEN "changed" ELSE "full"

SyncResult(id, updated, previousCommit, currentCommit) ==
    [ id |-> id, updated |-> updated, previousCommit |-> previousCommit,
      currentCommit |-> currentCommit ]

SyncUpdateStale(remoteHead, now) ==
    [ lastSyncedCommit |-> NoneOpt, lastSyncedAt |-> Some(now) ]

\* the update syncRepo passes to store.updateRepo
SyncUpdate(remoteHead, now) ==
    [ lastSyncedCommit |-> Some(remoteHead), lastSyncedAt |-> Some(now) ]

\* syncRepo returns; Effect.forEach of syncAll goes on with the next repository
SyncReturn(p, res) ==
    [ result |-> Some(res),
      results |-> Append(proc[p].results, res),
      queue |-> Tail(proc[p].queue),
      pc |-> IF Len(proc[p].queue) > 1 THEN "sync_begin" ELSE "done",
      status |-> IF Len(proc[p].queue) > 1 THEN "running" ELSE "ok" ]

SyncRepoStart(p, id) ==
    /\ Resting(p)
    /\ Tick
    /\ proc' = [ proc EXCEPT ![p] =
                   Begin(p, [ kind |-> "syncRepo", pc |-> "sync_begin",
                              status |-> "running", queue |-> <<id>> ]) ]
    /\ UNCHANGED <<repos, remote, origin, head, disk, unreadable, table, lastFull>>

SyncAllStart(p) ==
    /\ Resting(p)
    /\ Tick
    /\ proc' = [ proc EXCEPT ![p] =
                     IF Len(repos) = 0
                     THEN Begin(p, [ kind |-> "syncAll", status |-> "ok" ])
                     ELSE Begin(p, [ kind |-> "syncAll", pc |-> "sync_begin",
                                     status |-> "running",
                                     queue |-> [ i \in 1..Len(repos) |-> repos[i].id ] ]) ]
    /\ UNCHANGED <<repos, remote, origin, head, disk, unreadable, table, lastFull>>

\* the locals of syncRepo(id) at its start
SyncLocals(id) ==
    [ id |-> id, repo |-> StoreGetRepo(repos, id), remoteHead |-> "none",
      changes |-> <<>>, result |-> NoneOpt, scope |-> "none", summary |-> NoneOpt,
      log |-> <<>>, gitFailed |-> FALSE, stepFailed |-> FALSE,
      repos0 |-> repos, table0 |-> table, tree0 |-> Snapshot(id) ]

SyncBegin(p) ==
    /\ proc[p].pc = "sync_begin"
    /\ LET id == Head(proc[p].queue)
           repoOpt == StoreGetRepo(repos, id)
       IN  IF ~IsSome(repoOpt)
             THEN Set(p, SyncLocals(id) @@ Failure("RepoNotFoundError"))
             ELSE IF IsPinned(Get(repoOpt))
             THEN Set(p, SyncReturn(p, SyncResult(id, FALSE, Get(repoOpt).lastSyncedCommit,
                                       IF IsSome(Get(repoOpt).lastSyncedCommit)
                                       THEN Get(Get(repoOpt).lastSyncedCommit)
                                       ELSE "unknown"))
                         @@ SyncLocals(id))
             ELSE Set(p, [ pc |-> "sync_fetch" ] @@ SyncLocals(id))
    /\ UNCHANGED <<repos, remote, origin, head, disk, unreadable, table, clock, lastFull>>

\* git -C <localPath> fetch origin
SyncFetch(p) ==
    /\ proc[p].pc = "sync_fetch"
    /\ LET id == proc[p].id IN
       \E out \in GitOutcomes(head[id] # NoCommit, MayFault(p)) :
         /\ origin' = IF out = "ok" THEN [ origin EXCEPT ![id] = remote[id] ] ELSE origin
         /\ IF out = "error"
            THEN Set(p, [ log |-> Logged(p, <<"fetch">>) ] @@ Failure("GitError")
                        @@ Seen(p, out))
            ELSE Set(p, [ log |-> Logged(p, <<"fetch">>), pc |-> "sync_revparse" ]
                        @@ Seen(p, out))
    /\ UNCHANGED <<repos, remote, head, disk, unreadable, table, clock, lastFull>>

\* git -C <localPath> rev-parse origin/<branch>, then the needsUpdate test
SyncRevParse(p) ==
    /\ proc[p].pc = "sync_revparse"
    /\ LET id == proc[p].id
           previousCommit == Get(proc[p].repo).lastSyncedCommit
       IN
       \E out \in GitOutcomes(IsCommit(origin[id]), MayFault(p)) :
            LET remoteHead == IF out = "ok" THEN origin[id] ELSE BadRef
                called == [ log |-> Logged(p, <<"revparse">>) ] @@ Seen(p, out)
                seen == [ remoteHead |-> remoteHead ] @@ called
            IN  IF out = "error"
                THEN Set(p, Failure("GitError") @@ called)
                ELSE IF ~needsUpdate(previousCommit, remoteHead)
                THEN Set(p, SyncReturn(p, SyncResult(id, FALSE, previousCommit, remoteHead))
                            @@ seen)
                ELSE Set(p, [ pc |-> "sync_diff" ] @@ seen)
    /\ UNCHANGED <<repos, remote, origin, head, disk, unreadable, table, clock, lastFull>>

\* git -C <localPath> diff --name-status <prev>..<remoteHead>, when there is a
\* previous commit
SyncDiff(p) ==
    /\ proc[p].pc = "sync_diff"
    /\ LET previousCommit == Get(proc[p].repo).lastSyncedCommit IN
       IF ~IsSome(previousCommit)
       THEN Set(p, [ pc |-> "sync_reset", changes |-> <<>> ])
       ELSE \E out \in GitOutcomes(IsCommit(Get(previousCommit)) /\ IsCommit(proc[p].remoteHead),
                                   MayFault(p)) :
                 LET seen == [ log |-> Logged(p, <<"diff">>) ] @@ Seen(p, out)
                 IN  IF out = "error"
                     THEN Set(p, Failure("GitError") @@ seen)
                     ELSE Set(p, [ pc |-> "sync_reset",
                                   changes |-> IF out = "ok"
                                               THEN DiffNameStatus(Get(previousCommit),
                                                                   proc[p].remoteHead)
                                               ELSE <<>> ] @@ seen)
    /\ UNCHANGED <<repos, remote, origin, head, disk, unreadable, table, clock, lastFull>>

\* git -C <localPath> reset --hard origin/<branch>, then the choice between
\* indexChanges and indexRepo
SyncReset(p) ==
    /\ proc[p].pc = "sync_reset"
    /\ LET id == proc[p].id
           scope == ChooseScope(proc[p].changes)
       IN
       \E out \in GitOutcomes(head[id] # NoCommit /\ IsCommit(origin[id]), MayFault(p)) :
         /\ head' = IF out = "ok" THEN [ head EXCEPT ![id] = origin[id] ] ELSE head
         /\ disk' = IF out = "ok" THEN [ disk EXCEPT ![id] = TreeOf(origin[id]) ] ELSE disk
         /\ LET seen == Seen(p, out)
            IN  IF out = "error"
                THEN Set(p, [ log |-> Logged(p, <<"reset">>) ] @@ Failure("GitError") @@ seen)
                ELSE Set(p, [ log |-> proc[p].log \o
                                        << <<"reset">>,
                                           IF scope = "changed"
                                           THEN <<"indexChanges", proc[p].changes>>
                                           ELSE <<"indexRepo">> >>,
                              scope |-> scope, force |-> FALSE,
                              pc |-> IF scope = "changed" THEN "ic_start" ELSE "ir_scan" ]
                            @@ seen)
    /\ UNCHANGED <<repos, remote, origin, unreadable, table, clock, lastFull>>

\* store.updateRepo(id, { lastSyncedCommit, lastSyncedAt })
SyncPersist(p) ==
    /\ proc[p].pc = "sync_persist"
    /\ LET id == proc[p].id IN
       \E saved \in Chance(p) :
         IF saved
         THEN /\ repos' = StoreUpdateRepo(repos, id, SyncUpdate(proc[p].remoteHead, clock))
              /\ Set(p, [ log |-> Logged(p, <<"persist">>) ]
                        @@ SyncReturn(p, SyncResult(id, TRUE,
                                                    Get(proc[p].repo).lastSyncedCommit,
                                                    proc[p].remoteHead)))
         ELSE /\ repos' = repos
              /\ Set(p, [ log |-> Logged(p, <<"persist">>), stepFailed |-> TRUE ]
                        @@ Failure("StoreError") @@ Fault(p))
    /\ UNCHANGED <<remote, origin, head, disk, unreadable, table, clock, lastFull>>

-----------------------------------------------------------------------------
(* Indexer: indexRepo. *)

IndexSummary(indexed, deleted, skipped) ==
    [ filesIndexed |-> indexed, filesDeleted |-> deleted, filesSkipped |-> skipped ]

\* the ingestion returns to its caller: syncRepo goes on to update the store,
\* addRepo returns the repo, a caller of the Indexer has its summary
IngestReturn(p, summary) ==
    IF proc[p].kind \in { "syncRepo", "syncAll" }
    THEN [ summary |-> Some(summary), pc |-> "sync_persist" ]
    ELSE [ summary |-> Some(summary), pc |-> "done", status |-> "ok" ]

IngestFailure(err) == [ stepFailed |-> TRUE ] @@ Failure(err)

\* getTable, the query of the existing rows, the glob and the loop over the files
IndexRepoScan(p) ==
    /\ proc[p].pc = "ir_scan"
    /\ LET id == proc[p].id
           locked == { x[2] : x \in { y \in unreadable : y[1] = id } }
           byPath == existingByPath(RowsOf(table, id))
           toIndex == ScanToIndex(disk[id], locked, byPath, proc[p].force)
           toDelete == ScanToDelete(disk[id], byPath)
       IN  \E scanned \in Chance(p) :
             IF ~scanned
             THEN Set(p, IngestFailure("IndexError") @@ Fault(p))
             ELSE Set(p, [ toIndex |-> toIndex, toDelete |-> toDelete, i |-> 1,
                           skipped |-> ScanSkipped(disk[id], locked, byPath, proc[p].force),
                           indexed |-> 0, table0 |-> table,
                           rerun |-> (lastFull[id] = Some(FullState(id))),
                           pc |-> IF Len(toDelete) > 0 THEN "ir_delete"
                                  ELSE IF Len(toIndex) > 0 THEN "ir_predelete"
                                  ELSE "ir_fts" ])
    /\ UNCHANGED <<repos, remote, origin, head, disk, unreadable, table, clock, lastFull>>

\* the loop "Delete removed files from index": a failed delete fails the run
IndexRepoDelete(p) ==
    /\ proc[p].pc = "ir_delete"
    /\ LET id == proc[p].id
           path == proc[p].toDelete[proc[p].i]
           last == proc[p].i = Len(proc[p].toDelete)
       IN  LET deleted == ~DeleteRejected(id, path) IN
             /\ IF deleted
                THEN /\ table' = tblDelete(table, id, path)
                     /\ Set(p, [ i |-> IF last THEN 1 ELSE proc[p].i + 1,
                                 pc |-> IF ~last THEN "ir_delete"
                                        ELSE IF Len(proc[p].toIndex) > 0 THEN "ir_predelete"
                                        ELSE "ir_fts" ])
                ELSE /\ table' = table
                     /\ Set(p, IngestFailure("IndexError"))
    /\ UNCHANGED <<repos, remote, origin, head, disk, unreadable, clock, lastFull>>

\* the loop "Delete existing records for files being re-indexed": errors of
\* the delete are ignored
IndexRepoPreDelete(p) ==
    /\ proc[p].pc = "ir_predelete"
    /\ LET id == proc[p].id
           path == proc[p].toIndex[proc[p].i].path
           last == proc[p].i = Len(proc[p].toIndex)
       IN  LET deleted == ~DeleteRejected(id, path) IN
             /\ table' = IF deleted THEN tblDelete(table, id, path) ELSE table
             /\ Set(p, [ i |-> IF last THEN 1 ELSE proc[p].i + 1,
                         pc |-> IF last THEN "ir_insert" ELSE "ir_predelete" ])
    /\ UNCHANGED <<repos, remote, origin, head, disk, unreadable, clock, lastFull>>

\* the records indexRepo adds, one per queued file
IndexRepoRecords(id, toIndex) ==
    [ i \in 1..Len(toIndex) |-> FileRecord(id, toIndex[i].path, toIndex[i].buffer) ]

\* the embeddings of all queued files, one after the other, then tbl.add(records)
IndexRepoInsert(p) ==
    /\ proc[p].pc = "ir_insert"
    /\ LET id == proc[p].id IN
       \E out \in InsertOutcomes(p) :
         IF out = "ok"
         THEN /\ table' = tblAdd(table, IndexRepoRecords(id, proc[p].toIndex))
              /\ Set(p, [ indexed |-> Len(proc[p].toIndex), pc |-> "ir_fts" ])
         ELSE /\ table' = table
              /\ Set(p, IngestFailure("IndexError") @@ Fault(p))
    /\ UNCHANGED <<repos, remote, origin, head, disk, unreadable, clock, lastFull>>

\* tbl.createIndex("contents", fts) with its errors ignored, and the summary
IndexRepoFts(p) ==
    /\ proc[p].pc = "ir_fts"
    /\ LET id == proc[p].id IN
       /\ Set(p, IngestReturn(p, IndexSummary(Len(proc[p].toIndex), Len(proc[p].toDelete),
                                              proc[p].skipped)))
       /\ lastFull' = [ lastFull EXCEPT ![id] = Some(FullState(id)) ]
    /\ UNCHANGED <<repos, remote, origin, head, disk, unreadable, table, clock>>

-----------------------------------------------------------------------------
(* Indexer: indexChanges. *)

ChangedPaths(changes, statuses) ==
    LET picked == SelectSeq(changes, LAMBDA c : c.status \in statuses)
    IN  [ i \in 1..Len(picked) |-> picked[i].path ]

\* the file of a change is skipped: ignored, missing, unreadable or binary
ChangeSkipped(tree, locked, path) ==
    \/ shouldIgnore(path)
    \/ tree[path] = <<>>
    \/ path \in locked
    \/ isBinary(Get(tree[path]))

\* position after the file at index i of addedOrModified has been handled
ChangesNext(p, indexed, skipped) ==
    IF proc[p].i < Len(proc[p].toIndex)
    THEN [ i |-> proc[p].i + 1, indexed |-> indexed, skipped |-> skipped, pc |-> "ic_file" ]
    ELSE [ i |-> 1, indexed |-> indexed, skipped |-> skipped ]
         @@ IngestReturn(p, IndexSummary(indexed, Len(proc[p].toDelete), skipped))

\* getTable and the two filters of the change list
IndexChangesStart(p) ==
    /\ proc[p].pc = "ic_start"
    /\ LET deleted == ChangedPaths(proc[p].changes, {"D"})
           addedOrModified == ChangedPaths(proc[p].changes, {"A", "M"})
       IN  \E opened \in Chance(p) :
             IF ~opened
             THEN Set(p, IngestFailure("IndexError") @@ Fault(p))
             ELSE Set(p, [ toDelete |-> deleted,
                           toIndex |-> [ i \in 1..Len(addedOrModified) |->
                                           [ path |-> addedOrModified[i], buffer |-> <<>> ] ],
                           i |-> 1, indexed |-> 0, skipped |-> 0, table0 |-> table ]
                         @@ (IF Len(deleted) > 0 THEN [ pc |-> "ic_delete" ]
                             ELSE IF Len(addedOrModified) > 0 THEN [ pc |-> "ic_file" ]
                             ELSE IngestReturn(p, IndexSummary(0, 0, 0))))
    /\ UNCHANGED <<repos, remote, origin, head, disk, unreadable, table, clock, lastFull>>

\* the loop "Delete removed files": errors of the delete are ignored
IndexChangesDelete(p) ==
    /\ proc[p].pc = "ic_delete"
    /\ LET id == proc[p].id
           path == proc[p].toDelete[proc[p].i]
           last == proc[p].i = Len(proc[p].toDelete)
       IN  LET deleted == ~DeleteRejected(id, path) IN
             /\ table' = IF deleted THEN tblDelete(table, id, path) ELSE table
             /\ Set(p, IF ~last THEN [ i |-> proc[p].i + 1 ]
                       ELSE IF Len(proc[p].toIndex) > 0 THEN [ i |-> 1, pc |-> "ic_file" ]
                       ELSE [ i |-> 1 ] @@ IngestReturn(p, IndexSummary(0, Len(proc[p].toDelete), 0)))
    /\ UNCHANGED <<repos, remote, origin, head, disk, unreadable, clock, lastFull>>

\* one added or modified file: the checks that skip it, else the delete of
\* its existing record (errors ignored)
IndexChangesFile(p) ==
    /\ proc[p].pc = "ic_file"
    /\ LET id == proc[p].id
           path == proc[p].toIndex[proc[p].i].path
           locked == { x[2] : x \in { y \in unreadable : y[1] = id } }
       IN  IF ChangeSkipped(disk[id], locked, path)
           THEN /\ table' = table
                /\ Set(p, ChangesNext(p, proc[p].indexed, proc[p].skipped + 1))
           ELSE LET deleted == ~DeleteRejected(id, path) IN
                  /\ table' = IF deleted THEN tblDelete(table, id, path) ELSE table
                  /\ Set(p, [ toIndex |-> [ proc[p].toIndex EXCEPT ![proc[p].i].buffer =
                                              Get(disk[id][path]) ],
                              pc |-> "ic_insert" ])
    /\ UNCHANGED <<repos, remote, origin, head, disk, unreadable, clock, lastFull>>

\* the embedding of the file and tbl.add([record])
IndexChangesInsert(p) ==
    /\ proc[p].pc = "ic_insert"
    /\ LET id == proc[p].id
           file == proc[p].toIndex[proc[p].i]
       IN  \E out \in InsertOutcomes(p) :
             IF out = "ok"
             THEN /\ table' = tblAdd(table, << FileRecord(id, file.path, file.buffer) >>)
                  /\ Set(p, ChangesNext(p, proc[p].indexed + 1, proc[p].skipped))
             ELSE /\ table' = table
                  /\ Set(p, IngestFailure("IndexError") @@ Fault(p))
    /\ UNCHANGED <<repos, remote, origin, head, disk, unreadable, clock, lastFull>>

-----------------------------------------------------------------------------
(* addRepo. *)

RepoConfig(id, url, mode, currentCommit, now) ==
    [ id |-> id, url |-> url, mode |-> mode,
      lastSyncedCommit |-> Some(currentCommit), lastSyncedAt |-> Some(now) ]

\* deriveRepoId, store.getRepo and the already-exists test
AddRepoStart(p, url, mode) ==
    /\ Resting(p)
    /\ Tick
    /\ LET id == deriveRepoId(url)
           begun == Begin(p, [ kind |-> "addRepo", status |-> "running", id |-> id,
                                    mode |-> mode, repos0 |-> repos, table0 |-> table,
                                    tree0 |-> Snapshot(id),
                                    repo |-> Some(RepoConfig(id, url, mode, "none", 0)) ])
       IN  proc' = [ proc EXCEPT ![p] =
                         IF IsSome(StoreGetRepo(repos, id))
                         THEN Upd(begun, Failure("RepoAlreadyExistsError"))
                         ELSE Upd(begun, [ pc |-> "add_clone" ]) ]
    /\ UNCHANGED <<repos, remote, origin, head, disk, unreadable, table, lastFull>>

\* git clone --depth 1 <url> <localPath>
AddRepoClone(p) ==
    /\ proc[p].pc = "add_clone"
    /\ LET id == proc[p].id IN
       \E out \in GitOutcomes(head[id] = NoCommit, MayFault(p)) :
         /\ head' = IF out = "ok" THEN [ head EXCEPT ![id] = remote[id] ] ELSE head
         /\ origin' = IF out = "ok" THEN [ origin EXCEPT ![id] = remote[id] ] ELSE origin
         /\ disk' = IF out = "ok" THEN [ disk EXCEPT ![id] = TreeOf(remote[id]) ] ELSE disk
         /\ IF out = "error"
            THEN Set(p, [ log |-> Logged(p, <<"clone">>) ] @@ Failure("GitError")
                        @@ Seen(p, out))
            ELSE Set(p, [ log |-> Logged(p, <<"clone">>), pc |-> "add_revparse" ]
                        @@ Seen(p, out))
    /\ UNCHANGED <<repos, remote, unreadable, table, clock, lastFull>>

\* git -C <localPath> rev-parse HEAD
AddRepoRevParse(p) ==
    /\ proc[p].pc = "add_revparse"
    /\ LET id == proc[p].id IN
       \E out \in GitOutcomes(head[id] # NoCommit, MayFault(p)) :
            IF out = "error"
            THEN Set(p, [ log |-> Logged(p, <<"revparse">>) ] @@ Failure("GitError")
                        @@ Seen(p, out))
            ELSE Set(p, [ log |-> Logged(p, <<"revparse">>), pc |-> "add_save",
                          remoteHead |-> IF out = "ok" THEN head[id] ELSE BadRef ]
                        @@ Seen(p, out))
    /\ UNCHANGED <<repos, remote, origin, head, disk, unreadable, table, clock, lastFull>>

\* store.addRepo(repo), then indexRepo(id, localPath)
AddRepoSave(p) ==
    /\ proc[p].pc = "add_save"
    /\ LET id == proc[p].id
           repo == RepoConfig(id, Get(proc[p].repo).url, proc[p].mode, proc[p].remoteHead, clock)
       IN  \E saved \in Chance(p) :
             IF saved
             THEN /\ repos' = StoreAddRepo(repos, repo)
                  /\ Set(p, [ repo |-> Some(repo), scope |-> "full", force |-> FALSE,
                              log |-> proc[p].log \o << <<"persist">>, <<"indexRepo">> >>,
                              pc |-> "ir_scan" ])
             ELSE /\ repos' = repos
                  /\ Set(p, [ log |-> Logged(p, <<"persist">>) ] @@ Failure("StoreError")
                            @@ Fault(p))
    /\ UNCHANGED <<remote, origin, head, disk, unreadable, table, clock, lastFull>>

-----------------------------------------------------------------------------
(* removeRepo. *)

RemoveRepoStart(p, id) ==
    /\ Resting(p)
    /\ Tick
    /\ LET repoOpt == StoreGetRepo(repos, id)
           begun == Begin(p, [ kind |-> "removeRepo", status |-> "running", id |-> id,
                                    repo |-> repoOpt, repos0 |-> repos, table0 |-> table,
                                    tree0 |-> Snapshot(id) ])
       IN  proc' = [ proc EXCEPT ![p] =
                         IF ~IsSome(repoOpt)
                         THEN Upd(begun, Failure("RepoNotFoundError"))
                         ELSE Upd(begun, [ pc |-> "rm_index" ]) ]
    /\ UNCHANGED <<repos, remote, origin, head, disk, unreadable, table, lastFull>>

\* indexer.removeIndex(id)
RemoveRepoIndex(p) ==
    /\ proc[p].pc = "rm_index"
    /\ LET id == proc[p].id IN
       \E deleted \in Chance(p) :
         IF deleted
         THEN /\ table' = tblDeleteRepo(table, id)
              /\ Set(p, [ log |-> Logged(p, <<"removeIndex">>), pc |-> "rm_files" ])
         ELSE /\ table' = table
              /\ Set(p, [ log |-> Logged(p, <<"removeIndex">>) ] @@ Failure("IndexError")
                        @@ Fault(p))
    /\ UNCHANGED <<repos, remote, origin, head, disk, unreadable, clock, lastFull>>

\* fs.remove(repo.localPath, { recursive: true }) with its errors ignored
RemoveRepoFiles(p) ==
    /\ proc[p].pc = "rm_files"
    /\ LET id == proc[p].id IN
       \E removed \in Chance(p) :
         /\ head' = IF removed THEN [ head EXCEPT ![id] = NoCommit ] ELSE head
         /\ origin' = IF removed THEN [ origin EXCEPT ![id] = NoCommit ] ELSE origin
         /\ disk' = IF removed THEN [ disk EXCEPT ![id] = EmptyTree ] ELSE disk
         /\ unreadable' = IF removed THEN { x \in unreadable : x[1] # id } ELSE unreadable
         /\ Set(p, [ log |-> Logged(p, <<"remove">>), pc |-> "rm_store",
                     faults |-> IF removed THEN proc[p].faults ELSE proc[p].faults + 1 ])
    /\ UNCHANGED <<repos, remote, table, clock, lastFull>>

\* store.removeRepo(id)
RemoveRepoStore(p) ==
    /\ proc[p].pc = "rm_store"
    /\ LET id == proc[p].id IN
       \E saved \in Chance(p) :
         IF saved
         THEN /\ repos' = StoreRemoveRepo(repos, id)
              /\ Set(p, [ log |-> Logged(p, <<"persist">>), pc |-> "done", status |-> "ok" ])
         ELSE /\ repos' = repos
              /\ Set(p, [ log |-> Logged(p, <<"persist">>) ] @@ Failure("StoreError")
                        @@ Fault(p))
    /\ UNCHANGED <<remote, origin, head, disk, unreadable, table, clock, lastFull>>

-----------------------------------------------------------------------------
(* The environment, between two operations of the engine. *)

AllResting == \A p \in Procs : Resting(p)

\* every operation has returned to its caller, and its locals are gone
Returned == proc' = [ p \in Procs |-> Begin(p, [ kind |-> "none" ]) ]

\* the pushes that happen: the history of the remote branch is c1, ..., c5,
\* and a push moves the branch forward by one or more commits
CommitOrder == << "c1", "c2", "c3", "c4", "c5" >>

Pushes ==
    { <<CommitOrder[x[1]], CommitOrder[x[2]]>> :
        x \in { y \in (1..Len(CommitOrder)) \X (1..Len(CommitOrder)) : y[1] < y[2] } }

\* the files whose permissions change
ChmodPaths == { PA }

FirstUrl == [owner |-> "o", name |-> "r1", git |-> FALSE]

\* the repository whose files and store entry are changed from outside
TouchedIds == { deriveRepoId(FirstUrl) }

\* the calls of addRepo: url and options.mode
AddInputs == { <<FirstUrl, trackingMode("main")>>,
               <<[owner |-> "o", name |-> "r2", git |-> FALSE], trackingMode("main")>>,
               <<[owner |-> "o", name |-> "r2", git |-> FALSE], pinnedMode("v1")>> }

\* a push to the remote branch
RemotePush(id, c) ==
    /\ AllResting
    /\ Tick
    /\ <<remote[id], c>> \in Pushes
    /\ remote' = [ remote EXCEPT ![id] = c ]
    /\ Returned
    /\ UNCHANGED <<repos, origin, head, disk, unreadable, table, lastFull>>

\* a file of a working tree becomes unreadable, or readable again
Chmod(id, path) ==
    /\ AllResting
    /\ Tick
    /\ disk[id][path] # <<>>
    /\ unreadable' = IF <<id, path>> \in unreadable
                     THEN unreadable \ { <<id, path>> }
                     ELSE unreadable \cup { <<id, path>> }
    /\ Returned
    /\ UNCHANGED <<repos, remote, origin, head, disk, table, lastFull>>

\* RepoStore.updateRepo called by a client of the store, clearing the sync state
StoreClearSync(id) ==
    /\ AllResting
    /\ Tick
    /\ IsSome(StoreGetRepo(repos, id))
    /\ repos' = StoreUpdateRepo(repos, id,
                                [ lastSyncedCommit |-> NoneOpt, lastSyncedAt |-> NoneOpt ])
    /\ Returned
    /\ UNCHANGED <<remote, origin, head, disk, unreadable, table, lastFull>>

-----------------------------------------------------------------------------
(* The specification: one worker, one operation at a time. *)

\* nothing under ~/.repobase yet
InitFresh ==
    /\ repos = <<>>
    /\ remote = [ id \in RepoIds |-> "c1" ]
    /\ origin = [ id \in RepoIds |-> NoCommit ]
    /\ head = [ id \in RepoIds |-> NoCommit ]
    /\ disk = [ id \in RepoIds |-> EmptyTree ]
    /\ unreadable = {}
    /\ table = <<>>
    /\ clock = 0
    /\ lastFull = [ id \in RepoIds |-> NoneOpt ]
    /\ proc = [ p \in Procs |-> IdleProc ]

\* ~/.repobase as an earlier run of the program left it after
\* addRepo("https://github.com/o/r1") at commit c1
InitAdded ==
    LET id == deriveRepoId(FirstUrl)
        rows == << FileRecord(id, PA, TextA), FileRecord(id, PQ, TextA) >>
    IN
    /\ repos = << RepoConfig(id, FirstUrl, trackingMode("main"), "c1", 0) >>
    /\ remote = [ r \in RepoIds |-> "c1" ]
    /\ origin = [ r \in RepoIds |-> IF r = id THEN "c1" ELSE NoCommit ]
    /\ head = [ r \in RepoIds |-> IF r = id THEN "c1" ELSE NoCommit ]
    /\ disk = [ r \in RepoIds |-> IF r = id THEN TreeOf("c1") ELSE EmptyTree ]
    /\ unreadable = {}
    /\ table = rows
    /\ clock = 0
    /\ lastFull = [ r \in RepoIds |-> IF r = id THEN Some(<<TreeOf("c1"), {}, rows>>)
                                       ELSE NoneOpt ]
    /\ proc = [ p \in Procs |-> IdleProc ]

Init == InitFresh \/ InitAdded

\* ~/.repobase as InitAdded and then a syncRepo("o/r1") with the remote at c3
\* leave it when `git diff` and `git reset --hard` exit with a non-zero
\* status: the working tree, HEAD and the records are those of c1, and the
\* sync has persisted c3 as the last synced commit
InitDrifted ==
    LET id == deriveRepoId(FirstUrl)
        rows == << FileRecord(id, PA, TextA), FileRecord(id, PQ, TextA) >>
    IN
    /\ repos = << Upd(RepoConfig(id, FirstUrl, trackingMode("main"), "c1", 0),
                      SyncUpdate("c3", 2)) >>
    /\ remote = [ r \in RepoIds |-> IF r = id THEN "c3" ELSE "c1" ]
    /\ origin = [ r \in RepoIds |-> IF r = id THEN "c3" ELSE NoCommit ]
    /\ head = [ r \in RepoIds |-> IF r = id THEN "c1" ELSE NoCommit ]
    /\ disk = [ r \in RepoIds |-> IF r = id THEN TreeOf("c1") ELSE EmptyTree ]
    /\ unreadable = {}
    /\ table = rows
    /\ clock = 0
    /\ lastFull = [ r \in RepoIds |-> IF r = id THEN Some(<<TreeOf("c1"), {}, rows>>)
                                       ELSE NoneOpt ]
    /\ proc = [ p \in Procs |-> IdleProc ]

Step(p) ==
    \/ SyncBegin(p)
    \/ SyncFetch(p)
    \/ SyncRevParse(p)
    \/ SyncDiff(p)
    \/ SyncReset(p)
    \/ SyncPersist(p)
    \/ IndexRepoScan(p)
    \/ IndexRepoDelete(p)
    \/ IndexRepoPreDelete(p)
    \/ IndexRepoInsert(p)
    \/ IndexRepoFts(p)
    \/ IndexChangesStart(p)
    \/ IndexChangesDelete(p)
    \/ IndexChangesFile(p)
    \/ IndexChangesInsert(p)
    \/ AddRepoClone(p)
    \/ AddRepoRevParse(p)
    \/ AddRepoSave(p)
    \/ RemoveRepoIndex(p)
    \/ RemoveRepoFiles(p)
    \/ RemoveRepoStore(p)

Start(p) ==
    \/ \E input \in AddInputs : AddRepoStart(p, input[1], input[2])
    \/ \E id \in RepoIds : RemoveRepoStart(p, id)
    \/ \E id \in RepoIds : SyncRepoStart(p, id)
    \/ SyncAllStart(p)

Environment ==
    \/ \E id \in RepoIds, c \in Commits : RemotePush(id, c)
    \/ \E id \in TouchedIds, path \in ChmodPaths : Chmod(id, path)
    \/ \E id \in TouchedIds : StoreClearSync(id)

Next ==
    \/ Start(1)
    \/ Step(1)
    \/ Environment

Spec == Init /\ [][Next]_vars

\* the operations after a sync in which git commands exited non-zero
SpecDrift == InitDrifted /\ [][Next]_vars

-----------------------------------------------------------------------------
(* Search, listFiles and globFiles: queries over the table. *)

Max(a, b) == IF a > b THEN a ELSE b

Abs(a) == IF a < 0 THEN 0 - a ELSE a

\* the filename column: path.split("/").pop()
Filename(path) == path[Len(path)]

\* query.where(`repo = '<repo>'`) when the option is given
WhereRepo(tbl, repo) == IF IsSome(repo) THEN RowsOf(tbl, Get(repo)) ELSE tbl

\* query.limit(n): the limit reaches the table as an unsigned 32-bit integer,
\* so a negative n is 2^32 + n, more rows than a table of the model holds
LanceLimit(rows, limit) ==
    IF limit < 0 THEN rows ELSE SubSeq(rows, 1, Min(limit, Len(rows)))

\* the words of a search query: one byte each
Queries == { 97, 98 }

\* fullTextSearch(query): the rows whose contents have the word
FtsMatch(r, query) == \E i \in 1..Len(r.contents) : r.contents[i] = query

\* embedText, reduced to one dimension, and the distance of two vectors
Embed(text) == IF text = <<>> THEN 0 ELSE text[1]

Distance(r, query) == Abs(Embed(r.contents) - query)

\* the rows in the order of their distance to the query, rows of the same
\* distance in the order of the table
Nearest(rows, query) ==
    LET before(i, j) == \/ Distance(rows[i], query) < Distance(rows[j], query)
                        \/ Distance(rows[i], query) = Distance(rows[j], query) /\ i < j
        rank(j) == Cardinality({ i \in 1..Len(rows) : before(i, j) }) + 1
    IN  [ k \in 1..Len(rows) |-> rows[CHOOSE j \in 1..Len(rows) : rank(j) = k] ]

\* the fields of a search result that come from the row
SearchResult(r) == [ repo |-> r.repo, path |-> r.path, filename |-> Filename(r.path) ]

SearchResults(rows) == [ i \in 1..Len(rows) |-> SearchResult(rows[i]) ]

DEFAULT_SEARCH_LIMIT == 20

\* options?.limit ?? 20
SearchLimit(limit) == IF IsSome(limit) THEN Get(limit) ELSE DEFAULT_SEARCH_LIMIT

searchKeyword(tbl, query, repo, limit) ==
    LET found == SelectSeq(WhereRepo(tbl, repo), LAMBDA r : FtsMatch(r, query))
    IN  SearchResults(LanceLimit(found, SearchLimit(limit)))

searchSemantic(tbl, query, repo, limit) ==
    LET found == Nearest(WhereRepo(tbl, repo), query)
    IN  SearchResults(LanceLimit(found, SearchLimit(limit)))

\* the rows of either search, those of the full-text search first
searchHybrid(tbl, query, repo, limit) ==
    LET rows == WhereRepo(tbl, repo)
        ranked == Nearest(rows, query)
        found == SelectSeq(ranked, LAMBDA r : FtsMatch(r, query))
                 \o SelectSeq(ranked, LAMBDA r : ~FtsMatch(r, query))
    IN  SearchResults(LanceLimit(found, SearchLimit(limit)))

SearchModes == { "keyword", "semantic", "hybrid" }

\* RepoManager.search(query, mode, options)
search(tbl, query, mode, repo, limit) ==
    CASE mode = "keyword" -> searchKeyword(tbl, query, repo, limit)
      [] mode = "semantic" -> searchSemantic(tbl, query, repo, limit)
      [] mode = "hybrid" -> searchHybrid(tbl, query, repo, limit)

\* path.startsWith(prefix + "/")
Below(path, dirPath) ==
    /\ Len(path) > Len(dirPath)
    /\ SubSeq(path, 1, Len(dirPath)) = dirPath

\* paths below directories: a_b/lib/b.ts, axb/y.ts and it's/c.ts
PD == << <<"a_b">>, <<"lib">>, <<"b", "ts">> >>
PX == << <<"axb">>, <<"y", "ts">> >>
PQD == << <<"it's">>, <<"c", "ts">> >>

\* the names of the entries of listFiles, in the order of localeCompare
NameOrder ==
    << <<"a_b">>, <<"a", "ts">>, <<"axb">>, <<"b", "ts">>, <<"c", "ts">>, <<"it's">>,
       <<"it's", "md">>, <<"lib">>, <<"m", "js">>, <<"node_modules">>, <<"y", "ts">> >>

\* a LIKE pattern made of a segment matches the segment itself and, "_"
\* standing for any one character, the segments that differ from it only
\* where it has "_": 'a_b' matches 'axb'
WildcardMatches == { << <<"a_b">>, <<"axb">> >> }

LikeSegment(pattern, seg) == seg = pattern \/ << pattern, seg >> \in WildcardMatches

\* path LIKE '<dirPath>/%': the directory is pasted into the pattern as it is
Like(path, dirPath) ==
    /\ Len(path) > Len(dirPath)
    /\ \A i \in 1..Len(dirPath) : LikeSegment(dirPath[i], path[i])

\* listFiles of a repository: the rows the LIKE predicate selects; of each
\* the path relative to dirPath (the whole path when it does not start with
\* dirPath + "/"); an entry per first segment, a file when a row has nothing
\* after it, else a directory; directories first, then by name
listFiles(tbl, repo, dirPath) ==
    LET rows == SelectSeq(RowsOf(tbl, repo), LAMBDA r : Like(r.path, dirPath))
        relativePath(r) == IF Below(r.path, dirPath)
                           THEN SubSeq(r.path, Len(dirPath) + 1, Len(r.path))
                           ELSE r.path
        child(r) == relativePath(r)[1]
        direct(r) == Len(relativePath(r)) = 1
        names == { child(rows[i]) : i \in 1..Len(rows) }
        isFile(n) == \E i \in 1..Len(rows) : direct(rows[i]) /\ child(rows[i]) = n
        entry(n) == [ repo |-> repo, path |-> Append(dirPath, n), filename |-> n,
                      isDirectory |-> ~isFile(n) ]
        sorted == SelectSeq(NameOrder, LAMBDA n : n \in names /\ ~isFile(n))
                  \o SelectSeq(NameOrder, LAMBDA n : n \in names /\ isFile(n))
    IN  [ i \in 1..Len(sorted) |-> entry(sorted[i]) ]

\* the directories listFiles is called with
Dirs == { <<>>, << <<"node_modules">> >> }

\* glob patterns: "**/*" and "*.<ext>"
Patterns == { [ext |-> NoneOpt], [ext |-> Some("ts")], [ext |-> Some("md")] }

\* micromatch.isMatch(path, pattern) || micromatch.isMatch(filename, pattern):
\* "*.<ext>" matches a name without "/" that ends in .<ext> and does not begin
\* with a dot, "**/*" every path without such a segment
GlobMatch(path, pattern) ==
    IF IsSome(pattern.ext)
    THEN LET name == Filename(path)
         IN  Len(name) >= 2 /\ name[Len(name)] = Get(pattern.ext) /\ name[1] # ""
    ELSE \A i \in 1..Len(path) : path[i][1] # ""

DEFAULT_GLOB_LIMIT == 100

\* globFiles(pattern, { repo, limit })
globFiles(tbl, pattern, repo, limit) ==
    LET matched == SelectSeq(WhereRepo(tbl, repo), LAMBDA r : GlobMatch(r.path, pattern))
        n == IF IsSome(limit) THEN Get(limit) ELSE DEFAULT_GLOB_LIMIT
        limited == SubSeq(matched, 1, Min(n, Len(matched)))
    IN  [ i \in 1..Len(limited) |->
            [ repo |-> limited[i].repo, path |-> limited[i].path,
              filename |-> Filename(limited[i].path), isDirectory |-> FALSE ] ]

-----------------------------------------------------------------------------
(* readFile and grepPattern: the content operations. *)

\* "../a.ts" and "/a.ts"
PUp == << <<"", "", "">>, <<"a", "ts">> >>
PAbs == << <<"">>, <<"a", "ts">> >>

\* "a..ts": a file name with two dots in a row
PDots == << <<"a", "", "ts">> >>

\* the paths readFile is called with
ReadPaths == { PA, PQ, PN, PI, PUp, PAbs, PDots }

\* the file of a working tree, <<>> when there is none
FileAt(tree, path) == IF path \in DOMAIN tree THEN tree[path] ELSE <<>>

LF == 10

\* files of several lines: "a\nb\nb\na\nb" and "b\n"
Doc5 == << 97, LF, 98, LF, 98, LF, 97, LF, 98 >>
Doc2 == << 98, LF >>

\* content.split("\n")
RECURSIVE SplitLines(_)
SplitLines(text) ==
    IF \A i \in 1..Len(text) : text[i] # LF
    THEN << text >>
    ELSE LET k == CHOOSE i \in 1..Len(text) :
                      text[i] = LF /\ \A j \in 1..(i - 1) : text[j] # LF
         IN  << SubSeq(text, 1, k - 1) >> \o SplitLines(SubSeq(text, k + 1, Len(text)))

SliceToEnd(s, start, end) == SubSeq(s, start + 1, Len(s))

\* Array.prototype.slice(start, end): a negative index counts from the end
Slice(s, start, end) ==
    LET n == Len(s)
        from == IF start < 0 THEN Max(n + start, 0) ELSE Min(start, n)
        to == IF end < 0 THEN Max(n + end, 0) ELSE Min(end, n)
    IN  SubSeq(s, from + 1, to)

validatePathAny(path) == TRUE

\* validatePath: filePath.includes("..") || filePath.startsWith("/")
validatePath(path) ==
    LET dotdot == \E i \in 1..Len(path) : \E j \in 2..(Len(path[i]) - 1) :
                      path[i][j] = ""
        rooted == Len(path) >= 2 /\ path[1] = << "" >>
    IN  ~(dotdot \/ rooted)

\* a call that fails
Failed(error, operation, accessed) ==
    [ status |-> "fail", error |-> error, operation |-> operation,
      accessed |-> accessed, value |-> <<>> ]

\* a call that returns
Returns(value, accessed) ==
    [ status |-> "ok", error |-> "none", operation |-> "none",
      accessed |-> accessed, value |-> value ]

readStoredContents(tree, row, path) == << row.contents >>

\* fs.readFileString(`${getReposDir()}/${repo}/${path}`) for the row found in
\* the table: the file of the working tree, <<>> when it cannot be read
readFileString(tree, row, path) == FileAt(tree, path)

\* tbl.query().where(`repo = '<repo>' AND path = '<path>'`).limit(1): the
\* path is pasted into the predicate as it is
WherePath(tbl, repo, path) ==
    IF Injected(path) THEN SubSeq(tbl, 1, Min(1, Len(tbl)))
    ELSE LET rows == SelectSeq(tbl, LAMBDA r : r.repo = repo /\ r.path = path)
         IN  SubSeq(rows, 1, Min(1, Len(rows)))

\* `${String(startLine + i).padStart(6)}|${line}`, or the line as it is
NumberedLine(number, line, lineNumbers) ==
    IF lineNumbers THEN << number, line >> ELSE line

\* readFile(repo, filePath, { offset, limit, lineNumbers }); opened: getTable
\* succeeds; locked: the files of the repository that cannot be read
readFile(tbl, tree, locked, opened, repo, filePath, offset, limit, lineNumbers) ==
    IF ~opened THEN Failed("IndexError", "init", << <<"getTable">> >>)
    ELSE IF ~validatePath(filePath)
    THEN Failed("IndexError", "validatePath", << <<"getTable">> >>)
    ELSE LET queried == << <<"getTable">>, <<"query", repo, filePath>> >>
             accessed == Append(queried, <<"read", repo, filePath>>)
             indexed == WherePath(tbl, repo, filePath)
             content == readFileString(tree, Head(indexed), filePath)
         IN
         IF HasQuote(filePath) THEN Failed("IndexError", "readFile", queried)
         ELSE IF indexed = <<>>
         THEN Failed("FileNotFoundError", "readFile", queried)
         ELSE IF content = <<>> \/ filePath \in locked
         THEN Failed("FileNotFoundError", "readFile", accessed)
         ELSE LET lines == SplitLines(Get(content))
                  totalLines == Len(lines)
                  startLine == Max(1, IF IsSome(offset) THEN Get(offset) ELSE 1)
                  count == IF IsSome(limit) THEN Get(limit) ELSE totalLines
                  endLine == Min(totalLines, startLine + count - 1)
                  selectedLines == Slice(lines, startLine - 1, endLine)
              IN  Returns([ repo |-> repo, path |-> filePath,
                            content |-> [ i \in 1..Len(selectedLines) |->
                                            NumberedLine(startLine + i - 1, selectedLines[i],
                                                         lineNumbers) ],
                            totalLines |-> totalLines,
                            startLine |-> startLine,
                            endLine |-> endLine ],
                          accessed)

\* a regular expression: "a", "b", and "(", which does not compile
GrepPatterns == { [ valid |-> TRUE, char |-> 97 ],
                  [ valid |-> TRUE, char |-> 98 ],
                  [ valid |-> FALSE, char |-> 40 ] }

CompilesAlways(pattern) == TRUE

\* new RegExp(pattern, flags) does not throw
Compiles(pattern) == pattern.valid

\* regex.test(line)
Test(pattern, line) == \E i \in 1..Len(line) : line[i] = pattern.char

\* Number.MAX_SAFE_INTEGER, here the largest number of the model
MAX_SAFE_INTEGER == 2147483647

SortedSeqDescending(set) ==
    [ k \in 1..Cardinality(set) |->
        CHOOSE x \in set : Cardinality({ y \in set : y > x }) = k - 1 ]

\* [...set].sort((a, b) => a - b)
SortedSeq(set) ==
    [ k \in 1..Cardinality(set) |->
        CHOOSE x \in set : Cardinality({ y \in set : y < x }) = k - 1 ]

\* the default options of grepPattern
GrepDefaults ==
    [ repo |-> NoneOpt, limit |-> NoneOpt, contextBefore |-> 0, contextAfter |-> 0,
      filesWithMatches |-> FALSE, count |-> FALSE ]

\* the body of the loop over the files for one file; acc holds results,
\* outputCount and the accesses made so far
GrepFile(trees, locked, pattern, options, limit, file, acc) ==
    LET accessed == Append(acc.accessed, <<"read", file.repo, file.path>>)
        content == readFileString(trees[file.repo], file, file.path)
        skip == [ acc EXCEPT !.accessed = accessed ]
    IN
    IF content = <<>> \/ <<file.repo, file.path>> \in locked THEN skip
    ELSE LET lines == SplitLines(Get(content))
             matchingLineNums == { i \in 1..Len(lines) : Test(pattern, lines[i]) }
             entry(matches) == [ repo |-> file.repo, path |-> file.path,
                                 matches |-> matches,
                                 matchCount |-> Cardinality(matchingLineNums) ]
         IN
         IF matchingLineNums = {} THEN skip
         ELSE IF options.filesWithMatches
         THEN [ results |-> Append(acc.results, entry(<<>>)),
                outputCount |-> acc.outputCount + 1,
                accessed |-> accessed ]
         ELSE IF options.count
         THEN [ results |-> Append(acc.results, entry(<<>>)),
                outputCount |-> acc.outputCount,
                accessed |-> accessed ]
         ELSE LET linesToShow ==
                      { i \in 1..Len(lines) :
                          \E m \in matchingLineNums :
                              /\ i >= Max(1, m - options.contextBefore)
                              /\ i <= Min(Len(lines), m + options.contextAfter) }
                  sortedLines == SortedSeq(linesToShow)
                  pushed == Min(Len(sortedLines), Max(1, limit - acc.outputCount))
                  matches == [ k \in 1..pushed |->
                                 [ lineNumber |-> sortedLines[k],
                                   content |-> lines[sortedLines[k]],
                                   isMatch |-> sortedLines[k] \in matchingLineNums ] ]
              IN  [ results |-> Append(acc.results, entry(matches)),
                    outputCount |-> acc.outputCount + pushed,
                    accessed |-> accessed ]

RECURSIVE GrepLoopAll(_, _, _, _, _, _, _)
GrepLoopAll(trees, locked, pattern, options, limit, files, acc) ==
    IF files = <<>> THEN acc
    ELSE GrepLoopAll(trees, locked, pattern, options, limit, Tail(files),
                     GrepFile(trees, locked, pattern, options, limit, Head(files), acc))

\* for (const file of files) { if (outputCount >= limit) break; ... }
RECURSIVE GrepLoop(_, _, _, _, _, _, _)
GrepLoop(trees, locked, pattern, options, limit, files, acc) ==
    IF files = <<>> \/ acc.outputCount >= limit THEN acc
    ELSE GrepLoop(trees, locked, pattern, options, limit, Tail(files),
                  GrepFile(trees, locked, pattern, options, limit, Head(files), acc))

\* grepPattern(pattern, options), options.fileType not given; trees: the
\* working tree of every repository
grepPattern(tbl, trees, locked, opened, pattern, options) ==
    IF ~opened THEN Failed("IndexError", "init", << <<"getTable">> >>)
    ELSE IF ~Compiles(pattern)
    THEN Failed("InvalidPatternError", "grepPattern", << <<"getTable">> >>)
    ELSE LET files == WhereRepo(tbl, options.repo)
             limit == IF IsSome(options.limit) THEN Get(options.limit)
                      ELSE MAX_SAFE_INTEGER
             done == GrepLoop(trees, locked, pattern, options, limit, files,
                              [ results |-> <<>>, outputCount |-> 0,
                                accessed |-> << <<"getTable">>, <<"query">> >> ])
         IN  Returns(done.results, done.accessed)

-----------------------------------------------------------------------------
(* The specification of the content and search operations: one call of     *)
(* readFile, grepPattern or search on a store and working trees that        *)
(* earlier operations left.                                                  *)

MaxOffset == 6
MaxReadLimit == 5
MaxGrepLimit == 4
MaxContext == 2

Optional(set) == { NoneOpt } \cup { Some(x) : x \in set }

ReadOffsets == Optional(-1..MaxOffset)
ReadLimits == Optional(-1..MaxReadLimit)
GrepLimits == Optional(0..MaxGrepLimit)
SearchLimits == Optional({ -1, 0, 1, 2, DEFAULT_SEARCH_LIMIT })

SecondId == deriveRepoId([owner |-> "o", name |-> "r2", git |-> FALSE])

\* the working tree of o/r1: a.ts and it's.md indexed earlier and edited
\* since, with files that are ignored or not yet indexed; or a.ts deleted
ContentTrees ==
    { (PA :> << Doc5 >>) @@ (PQ :> << Doc2 >>) @@ (PN :> << TextA >>) @@ (PI :> << TextB >>),
      (PA :> <<>>) @@ (PQ :> << Doc5 >>) @@ (PN :> <<>>) @@ (PI :> <<>>) }

\* the table: empty, the records of o/r1 at c1, or records of two repositories
ContentTables ==
    LET id == deriveRepoId(FirstUrl) IN
    { <<>>,
      << FileRecord(id, PA, TextA), FileRecord(id, PQ, TextA) >>,
      << FileRecord(SecondId, PA, TextA), FileRecord(id, PA, TextB) >> }

\* a worker that has not called anything yet
IdleCall == [ input |-> <<>>, output |-> <<>> ] @@ IdleProc

InitContent ==
    LET id == deriveRepoId(FirstUrl) IN
    /\ repos = << RepoConfig(id, FirstUrl, trackingMode("main"), "c1", 0) >>
    /\ remote = [ r \in RepoIds |-> "c1" ]
    /\ origin = [ r \in RepoIds |-> "c1" ]
    /\ head = [ r \in RepoIds |-> "c1" ]
    /\ \E tree \in ContentTrees :
          disk = [ r \in RepoIds |-> IF r = id THEN tree ELSE (PA :> << Doc2 >>) ]
    /\ unreadable \in { {}, { <<id, PA>> } }
    /\ table \in ContentTables
    /\ clock = 0
    /\ lastFull = [ r \in RepoIds |-> NoneOpt ]
    /\ proc = [ p \in Procs |-> IdleCall ]

\* the worker has made the call and holds what it returned
Called(p, kind, input, output, opened) ==
    /\ proc' = [ proc EXCEPT ![p] =
                   [ kind |-> kind, status |-> output.status, error |-> output.error,
                     input |-> input, output |-> output,
                     faults |-> IF opened THEN proc[p].faults ELSE proc[p].faults + 1 ]
                   @@ proc[p] ]
    /\ UNCHANGED <<repos, remote, origin, head, disk, unreadable, table, clock, lastFull>>

LockedPaths(id) == { x[2] : x \in Locked(id) }

ReadFileCall(p) ==
    /\ proc[p].kind = "none"
    /\ \E filePath \in ReadPaths, offset \in ReadOffsets, limit \in ReadLimits,
          lineNumbers \in BOOLEAN, opened \in Chance(p) :
          LET repo == deriveRepoId(FirstUrl)
              input == [ repo |-> repo, path |-> filePath, offset |-> offset,
                         limit |-> limit, lineNumbers |-> lineNumbers ]
          IN  Called(p, "readFile", input,
                     readFile(table, disk[repo], LockedPaths(repo), opened, repo, filePath,
                              offset, limit, lineNumbers),
                     opened)

GrepCall(p) ==
    /\ proc[p].kind = "none"
    /\ \E pattern \in GrepPatterns, repo \in Optional({ deriveRepoId(FirstUrl) }),
          limit \in GrepLimits, before \in 0..MaxContext, after \in 0..MaxContext,
          filesWithMatches \in BOOLEAN, count \in BOOLEAN, opened \in Chance(p) :
          LET options == [ repo |-> repo, limit |-> limit, contextBefore |-> before,
                           contextAfter |-> after, filesWithMatches |-> filesWithMatches,
                           count |-> count ]
          IN  Called(p, "grepPattern", [ pattern |-> pattern, options |-> options ],
                     grepPattern(table, disk, unreadable, opened, pattern, options),
                     opened)

\* search(query, mode, { repo, limit }): getTable fails with a SearchError
SearchCall(p) ==
    /\ proc[p].kind = "none"
    /\ \E query \in Queries, mode \in SearchModes,
          repo \in Optional({ deriveRepoId(FirstUrl) }), limit \in SearchLimits,
          opened \in Chance(p) :
          Called(p, "search",
                 [ query |-> query, mode |-> mode, repo |-> repo, limit |-> limit ],
                 IF opened
                 THEN Returns(search(table, query, mode, repo, limit),
                              << <<"getTable">>, <<"query">> >>)
                 ELSE Failed("SearchError", "search", << <<"getTable">> >>),
                 opened)

NextContent ==
    \/ ReadFileCall(1)
    \/ GrepCall(1)
    \/ SearchCall(1)

SpecContent == InitContent /\ [][NextContent]_vars

-----------------------------------------------------------------------------
(* The specification of the discovery operations: one call of listFiles or   *)
(* globFiles on a table that a full ingestion of some working tree has left,  *)
(* while the working tree may have changed since.                             *)

MaxGlobLimit == 3

QueryRowsOnDisk(tbl, trees) ==
    SelectSeq(tbl, LAMBDA r : FileAt(trees[r.repo], r.path) # <<>>)

\* tbl.query()...toArray(): the rows of the table; the working trees are not
\* looked at
QueryRows(tbl, trees) == tbl

\* listFiles({ repo, path }) with a repository: validatePath, then the query,
\* whose predicate a quote in the directory makes malformed
listFilesResult(tbl, opened, repo, dirPath) ==
    IF ~opened THEN Failed("IndexError", "init", << <<"getTable">> >>)
    ELSE IF dirPath # <<>> /\ ~validatePath(dirPath)
    THEN Failed("IndexError", "validatePath", << <<"getTable">> >>)
    ELSE IF HasQuote(dirPath)
    THEN Failed("IndexError", "listFiles", << <<"getTable">>, <<"query">> >>)
    ELSE Returns(listFiles(tbl, repo, dirPath), << <<"getTable">>, <<"query">> >>)

\* globFiles(pattern, { repo, limit })
globFilesResult(tbl, opened, pattern, repo, limit) ==
    IF ~opened THEN Failed("IndexError", "init", << <<"getTable">> >>)
    ELSE Returns(globFiles(tbl, pattern, repo, limit), << <<"getTable">>, <<"query">> >>)

\* the files of the working trees, in the order of the directory walk
WalkOrder == << PA, PD, PX, PQD, PQ, PN >>

TreeWith(files) == [ f \in Range(WalkOrder) |-> IF f \in files THEN << TextA >> ELSE <<>> ]

\* working trees: files at the root and below a_b/lib with an ignored
\* directory; the directories a_b and axb; a directory it's; a flat tree
DiscoverTrees ==
    { TreeWith({ PA, PD, PN }), TreeWith({ PD, PX }), TreeWith({ PA, PQD }),
      TreeWith({ PA, PQ }) }

\* the table a successful indexRepo of the tree leaves when it starts from an
\* empty table: a record for each file that is not ignored and not binary
IngestedTable(id, tree) ==
    LET files == SelectSeq(WalkOrder, LAMBDA f : tree[f] # <<>> /\ ~GlobIgnored(f)
                                                  /\ ~isBinary(Get(tree[f])))
    IN  [ i \in 1..Len(files) |-> FileRecord(id, files[i], Get(tree[files[i]])) ]

\* the directories listFiles is called with
ListDirs ==
    { <<>>, << <<"a_b">> >>, << <<"a_b">>, <<"lib">> >>, << <<"axb">> >>,
      << <<"it's">> >>, << <<"node_modules">> >>, PUp }

GlobLimits == Optional(0..MaxGlobLimit)

InitDiscover ==
    LET id == deriveRepoId(FirstUrl) IN
    /\ repos = << RepoConfig(id, FirstUrl, trackingMode("main"), "c1", 0) >>
    /\ remote = [ r \in RepoIds |-> "c1" ]
    /\ origin = [ r \in RepoIds |-> "c1" ]
    /\ head = [ r \in RepoIds |-> "c1" ]
    /\ \E tree \in DiscoverTrees :
          disk = [ r \in RepoIds |-> IF r = id THEN tree ELSE TreeWith({}) ]
    /\ unreadable = {}
    /\ \E indexed \in DiscoverTrees : table = IngestedTable(id, indexed)
    /\ clock = 0
    /\ lastFull = [ r \in RepoIds |-> NoneOpt ]
    /\ proc = [ p \in Procs |-> IdleCall ]

ListFilesCall(p) ==
    /\ proc[p].kind = "none"
    /\ \E dirPath \in ListDirs, opened \in Chance(p) :
          LET repo == deriveRepoId(FirstUrl) IN
          Called(p, "listFiles", [ repo |-> repo, path |-> dirPath ],
                 listFilesResult(QueryRows(table, disk), opened, repo, dirPath), opened)

GlobFilesCall(p) ==
    /\ proc[p].kind = "none"
    /\ \E pattern \in Patterns, repo \in Optional({ deriveRepoId(FirstUrl) }),
          limit \in GlobLimits, opened \in Chance(p) :
          Called(p, "globFiles", [ pattern |-> pattern, repo |-> repo, limit |-> limit ],
                 globFilesResult(QueryRows(table, disk), opened, pattern, repo, limit),
                 opened)

NextDiscover ==
    \/ ListFilesCall(1)
    \/ GlobFilesCall(1)

SpecDiscover == InitDiscover /\ [][NextDiscover]_vars

-----------------------------------------------------------------------------
(* The specification of the RepoStore: one call of updateRepo or removeRepo  *)
(* on a persisted list of repositories.                                       *)

\* the repositories a persisted list holds: never synced, or synced at c1
StoredConfigs(id) ==
    { Upd(RepoConfig(id, [owner |-> id[1], name |-> id[2], git |-> FALSE],
                     trackingMode("main"), "c1", 0), sync) :
        sync \in { << >>, [ lastSyncedCommit |-> NoneOpt, lastSyncedAt |-> NoneOpt ] } }

\* the persisted lists: none, one or both repositories, in either order
StoredLists ==
    LET first == deriveRepoId(FirstUrl) IN
    { <<>> }
    \cup { << a >> : a \in StoredConfigs(first) \cup StoredConfigs(SecondId) }
    \cup { << a, b >> : a \in StoredConfigs(first), b \in StoredConfigs(SecondId) }
    \cup { << b, a >> : a \in StoredConfigs(first), b \in StoredConfigs(SecondId) }

\* the updates updateRepo is called with: none, the sync state, the mode
StoreUpdates ==
    { << >>,
      [ lastSyncedCommit |-> Some("c2") ],
      [ lastSyncedCommit |-> Some("c2"), lastSyncedAt |-> Some(1) ],
      [ lastSyncedCommit |-> NoneOpt, lastSyncedAt |-> NoneOpt ],
      [ mode |-> pinnedMode("v1") ] }

InitStore ==
    /\ repos \in StoredLists
    /\ remote = [ r \in RepoIds |-> "c1" ]
    /\ origin = [ r \in RepoIds |-> "c1" ]
    /\ head = [ r \in RepoIds |-> "c1" ]
    /\ disk = [ r \in RepoIds |-> TreeOf("c1") ]
    /\ unreadable = {}
    /\ table = <<>>
    /\ clock = 0
    /\ lastFull = [ r \in RepoIds |-> NoneOpt ]
    /\ proc = [ p \in Procs |-> IdleCall ]

\* the call ends: saved, or load or save has failed with StoreError and the
\* file is as it was
StoreCalled(p, kind, input, updated, saved) ==
    /\ repos' = IF saved THEN updated ELSE repos
    /\ proc' = [ proc EXCEPT ![p] =
                   Upd(@, [ kind |-> kind, input |-> input, repos0 |-> repos,
                            status |-> IF saved THEN "ok" ELSE "fail",
                            error |-> IF saved THEN "none" ELSE "StoreError",
                            faults |-> IF saved THEN @.faults ELSE @.faults + 1 ]) ]
    /\ UNCHANGED <<remote, origin, head, disk, unreadable, table, clock, lastFull>>

\* RepoStore.updateRepo(id, update)
StoreUpdateCall(p) ==
    /\ proc[p].kind = "none"
    /\ \E id \in RepoIds, update \in StoreUpdates, saved \in Chance(p) :
          StoreCalled(p, "updateRepo", [ id |-> id, update |-> update ],
                      StoreUpdateRepo(repos, id, update), saved)

\* RepoStore.removeRepo(id)
StoreRemoveCall(p) ==
    /\ proc[p].kind = "none"
    /\ \E id \in RepoIds, saved \in Chance(p) :
          StoreCalled(p, "removeRepo", [ id |-> id ], StoreRemoveRepo(repos, id), saved)

NextStore ==
    \/ StoreUpdateCall(1)
    \/ StoreRemoveCall(1)

SpecStore == InitStore /\ [][NextStore]_vars

-----------------------------------------------------------------------------
(* The insert phase of one ingestion run, call by call: the embedding of     *)
(* each queued file (embedText), tbl.add and, for indexRepo, the rebuild of  *)
(* the full-text index.  IndexRepoInsert, IndexRepoFts and                    *)
(* IndexChangesInsert above take these calls as one step each.               *)

MaxEmbedFiles == 3

\* the files of the working tree the run is about
IngestTree ==
    (PA :> << TextA >>) @@ (PQ :> << TextB >>) @@ (PN :> << TextA >>) @@ (PI :> << TextB >>)

\* toIndex of indexRepo (the scan has left the ignored paths out) or
\* addedOrModified of indexChanges: up to MaxEmbedFiles distinct paths
IngestQueues(scope) ==
    LET paths == { f \in DOMAIN IngestTree : scope = "changed" \/ ~shouldIgnore(f) }
        all == UNION { [ 1..k -> paths ] : k \in 0..MaxEmbedFiles }
        distinct == { q \in all : \A i, j \in 1..Len(q) : q[i] = q[j] => i = j }
    IN  { [ i \in 1..Len(q) |-> [ path |-> q[i], buffer |-> Get(IngestTree[q[i]]) ] ] :
            q \in distinct }

\* a run at the start of its insert phase
IngestRun(scope, toIndex) ==
    [ inFlight |-> {},          \* indices of toIndex whose embedText has not returned
      events |-> <<>>,          \* embedText calls and returns, in order
      ftsBuilt |-> NoneOpt ]    \* outcome of tbl.createIndex
    @@ Upd(IdleProc, [ kind |-> IF scope = "full" THEN "indexRepo" ELSE "indexChanges",
                       pc |-> "embed", status |-> "running",
                       id |-> deriveRepoId(FirstUrl), scope |-> scope,
                       toIndex |-> toIndex ])

InitIngest ==
    LET id == deriveRepoId(FirstUrl) IN
    /\ repos = << RepoConfig(id, FirstUrl, trackingMode("main"), "c1", 0) >>
    /\ remote = [ r \in RepoIds |-> "c1" ]
    /\ origin = [ r \in RepoIds |-> "c1" ]
    /\ head = [ r \in RepoIds |-> "c1" ]
    /\ disk = [ r \in RepoIds |-> IngestTree ]
    /\ unreadable = {}
    /\ table \in { <<>>, << FileRecord(SecondId, PA, TextA) >> }
    /\ clock = 0
    /\ lastFull = [ r \in RepoIds |-> NoneOpt ]
    /\ \E scope \in { "full", "changed" } : \E toIndex \in IngestQueues(scope) :
          proc = [ p \in Procs |-> IngestRun(scope, toIndex) ]

ConcurrencyUnbounded(scope) == MaxEmbedFiles

\* how many files the run handles at a time: Effect.forEach(toIndex, ...,
\* { concurrency: 1 }) in indexRepo, a for loop that awaits each call in
\* indexChanges
Concurrency(scope) == 1

\* the next file is taken up: indexChanges skips it or deletes its record,
\* then embedText(contents) is called
IngestEmbedStart(p) ==
    /\ proc[p].pc = "embed"
    /\ proc[p].i <= Len(proc[p].toIndex)
    /\ Cardinality(proc[p].inFlight) < Concurrency(proc[p].scope)
    /\ LET id == proc[p].id
           i == proc[p].i
           path == proc[p].toIndex[i].path
       IN  IF proc[p].scope = "changed" /\ ChangeSkipped(disk[id], {}, path)
           THEN /\ table' = table
                /\ Set(p, [ i |-> i + 1, skipped |-> proc[p].skipped + 1 ])
           ELSE /\ table' = IF proc[p].scope = "changed" /\ ~DeleteRejected(id, path)
                            THEN tblDelete(table, id, path) ELSE table
                /\ Set(p, [ i |-> i + 1,
                            inFlight |-> proc[p].inFlight \cup { i },
                            events |-> Append(proc[p].events, << "call", i >>) ])
    /\ UNCHANGED <<repos, remote, origin, head, disk, unreadable, clock, lastFull>>

\* an embedText call returns or fails; indexChanges then adds the record
IngestEmbedDone(p) ==
    /\ proc[p].pc = "embed"
    /\ \E i \in proc[p].inFlight : \E out \in InsertOutcomes(p) :
          LET file == proc[p].toIndex[i]
              returned == [ inFlight |-> proc[p].inFlight \ { i },
                            events |-> Append(proc[p].events, << "return", i >>) ]
          IN  IF out = "ok" \/ (out = "addFailed" /\ proc[p].scope = "full")
              THEN /\ table' = IF proc[p].scope = "changed"
                               THEN tblAdd(table, << FileRecord(proc[p].id, file.path,
                                                               file.buffer) >>)
                               ELSE table
                   /\ Set(p, [ indexed |-> proc[p].indexed + 1 ] @@ returned)
              ELSE /\ table' = table
                   /\ Set(p, returned @@ IngestFailure("IndexError") @@ Fault(p))
    /\ UNCHANGED <<repos, remote, origin, head, disk, unreadable, clock, lastFull>>

\* every file has been handled: indexRepo adds its records with one tbl.add,
\* indexChanges returns its summary
IngestAdd(p) ==
    /\ proc[p].pc = "embed"
    /\ proc[p].i > Len(proc[p].toIndex)
    /\ proc[p].inFlight = {}
    /\ IF proc[p].scope = "changed"
       THEN /\ table' = table
            /\ Set(p, [ pc |-> "done", status |-> "ok",
                        summary |-> Some(IndexSummary(proc[p].indexed, 0,
                                                      proc[p].skipped)) ])
       ELSE \E added \in Chance(p) :
              IF added \/ proc[p].toIndex = <<>>
              THEN /\ table' = tblAdd(table, IndexRepoRecords(proc[p].id, proc[p].toIndex))
                   /\ Set(p, [ pc |-> "fts" ])
              ELSE /\ table' = table
                   /\ Set(p, IngestFailure("IndexError") @@ Fault(p))
    /\ UNCHANGED <<repos, remote, origin, head, disk, unreadable, clock, lastFull>>

FtsResultFatal(p, built) ==
    IF built
    THEN [ pc |-> "done", status |-> "ok",
           summary |-> Some(IndexSummary(Len(proc[p].toIndex), 0, 0)) ]
    ELSE IngestFailure("IndexError")

\* what indexRepo does after tbl.createIndex("contents", fts) has returned or
\* thrown: catch: () => void 0 and Effect.ignore, then the summary
FtsResult(p, built) ==
    [ pc |-> "done", status |-> "ok",
      summary |-> Some(IndexSummary(Len(proc[p].toIndex), 0, 0)) ]

\* tbl.createIndex("contents", { config: Index.fts(), replace: true })
IngestFts(p) ==
    /\ proc[p].pc = "fts"
    /\ \E built \in Chance(p) :
          Set(p, FtsResult(p, built) @@ [ ftsBuilt |-> Some(built) ]
                 @@ (IF built THEN [ faults |-> proc[p].faults ] ELSE Fault(p)))
    /\ UNCHANGED <<repos, remote, origin, head, disk, unreadable, table, clock, lastFull>>

NextIngest ==
    \/ IngestEmbedStart(1)
    \/ IngestEmbedDone(1)
    \/ IngestAdd(1)
    \/ IngestFts(1)

SpecIngest == InitIngest /\ [][NextIngest]_vars

-----------------------------------------------------------------------------
(* The specification of two syncs that run at the same time: two workers,    *)
(* each in a syncRepo of its own, on two repositories or on the same one.    *)
(* store.updateRepo is two steps, the load of the document and the save of   *)
(* the modified copy, and every step of one sync may fall between two steps  *)
(* of the other.                                                             *)

\* the locals of a worker, with the document store.updateRepo has loaded
IdleSync == [ data |-> <<>> ] @@ IdleProc

\* both repositories were added and indexed at c1 and their remotes have
\* moved on; o/r1 has its sync state, or has had it cleared; no command and
\* no call fails
InitConcurrent ==
    LET first == deriveRepoId(FirstUrl)
        rows(id) == << FileRecord(id, PA, TextA), FileRecord(id, PQ, TextA) >>
    IN
    /\ \E synced \in BOOLEAN :
          repos = << Upd(RepoConfig(first, FirstUrl, trackingMode("main"), "c1", 0),
                         IF synced THEN << >>
                         ELSE [ lastSyncedCommit |-> NoneOpt, lastSyncedAt |-> NoneOpt ]),
                     RepoConfig(SecondId, [owner |-> "o", name |-> "r2", git |-> FALSE],
                                trackingMode("main"), "c1", 0) >>
    /\ remote = [ r \in RepoIds |-> IF r = first THEN "c2" ELSE "c4" ]
    /\ origin = [ r \in RepoIds |-> "c1" ]
    /\ head = [ r \in RepoIds |-> "c1" ]
    /\ disk = [ r \in RepoIds |-> TreeOf("c1") ]
    /\ unreadable = {}
    /\ table = rows(first) \o rows(SecondId)
    /\ clock = 0
    /\ lastFull = [ r \in RepoIds |-> Some(<<TreeOf("c1"), {}, rows(r)>>) ]
    /\ \E ids \in [ Procs -> RepoIds ] :
          proc = [ p \in Procs |->
                     Upd(IdleSync, [ kind |-> "syncRepo", pc |-> "sync_begin",
                                     status |-> "running", queue |-> << ids[p] >>,
                                     faults |-> MaxFaults ]) ]

\* store.updateRepo, first half: const data = yield* load()
StoreLoad(p) ==
    /\ proc[p].pc = "sync_persist"
    /\ Set(p, [ data |-> repos, pc |-> "sync_save" ])
    /\ UNCHANGED <<repos, remote, origin, head, disk, unreadable, table, clock, lastFull>>

\* store.updateRepo, second half: yield* save({ ...data, repos: data.repos.map(...) })
StoreSave(p) ==
    /\ proc[p].pc = "sync_save"
    /\ repos' = StoreUpdateRepo(proc[p].data, proc[p].id,
                                SyncUpdate(proc[p].remoteHead, clock))
    /\ Set(p, [ log |-> Logged(p, <<"persist">>) ]
              @@ SyncReturn(p, SyncResult(proc[p].id, TRUE,
                                          Get(proc[p].repo).lastSyncedCommit,
                                          proc[p].remoteHead)))
    /\ UNCHANGED <<remote, origin, head, disk, unreadable, table, clock, lastFull>>

\* a push to the remote branch while the syncs run
PushDuringSync(id, c) ==
    /\ <<remote[id], c>> \in Pushes
    /\ \E p \in Procs : ~Resting(p)
    /\ remote' = [ remote EXCEPT ![id] = c ]
    /\ UNCHANGED <<repos, origin, head, disk, unreadable, table, clock, lastFull, proc>>

NextConcurrent ==
    \/ \E id \in TouchedIds, c \in Commits : PushDuringSync(id, c)
    \/ \E p \in Procs : SyncBegin(p)
    \/ \E p \in Procs : SyncFetch(p)
    \/ \E p \in Procs : SyncRevParse(p)
    \/ \E p \in Procs : SyncDiff(p)
    \/ \E p \in Procs : SyncReset(p)
    \/ \E p \in Procs : IndexRepoScan(p)
    \/ \E p \in Procs : IndexRepoDelete(p)
    \/ \E p \in Procs : IndexRepoPreDelete(p)
    \/ \E p \in Procs : IndexRepoInsert(p)
    \/ \E p \in Procs : IndexRepoFts(p)
    \/ \E p \in Procs : IndexChangesStart(p)
    \/ \E p \in Procs : IndexChangesDelete(p)
    \/ \E p \in Procs : IndexChangesFile(p)
    \/ \E p \in Procs : IndexChangesInsert(p)
    \/ \E p \in Procs : StoreLoad(p)
    \/ \E p \in Procs : StoreSave(p)

SpecConcurrent == InitConcurrent /\ [][NextConcurrent]_vars

-----------------------------------------------------------------------------
(* The specification of a sync and its retry: worker 1 syncs o/r1, and when  *)
(* that sync has failed worker 2 syncs the same repository; the remote may   *)
(* move on in between.  Worker 1 keeps the locals of the failed sync.        *)

\* o/r1 was added and indexed at c1 and has its sync state, or has had it
\* cleared; the remote is at any commit; commands and calls of the first
\* sync may fail, those of the retry do not
InitRetry ==
    LET id == deriveRepoId(FirstUrl)
        rows == << FileRecord(id, PA, TextA), FileRecord(id, PQ, TextA) >>
    IN
    /\ \E synced \in BOOLEAN :
          repos = << Upd(RepoConfig(id, FirstUrl, trackingMode("main"), "c1", 0),
                         IF synced THEN << >>
                         ELSE [ lastSyncedCommit |-> NoneOpt, lastSyncedAt |-> NoneOpt ]) >>
    /\ \E c \in Commits : remote = [ r \in RepoIds |-> IF r = id THEN c ELSE "c1" ]
    /\ origin = [ r \in RepoIds |-> IF r = id THEN "c1" ELSE NoCommit ]
    /\ head = [ r \in RepoIds |-> IF r = id THEN "c1" ELSE NoCommit ]
    /\ disk = [ r \in RepoIds |-> IF r = id THEN TreeOf("c1") ELSE EmptyTree ]
    /\ unreadable = {}
    /\ table = rows
    /\ clock = 0
    /\ lastFull = [ r \in RepoIds |-> IF r = id THEN Some(<<TreeOf("c1"), {}, rows>>)
                                       ELSE NoneOpt ]
    /\ proc = [ p \in Procs |->
                  IF p = 1
                  THEN Upd(IdleProc, [ kind |-> "syncRepo", pc |-> "sync_begin",
                                       status |-> "running", queue |-> << id >> ])
                  ELSE Upd(IdleProc, [ faults |-> MaxFaults ]) ]

\* the first sync has failed and the retry has not been called
BetweenSyncs ==
    /\ proc[1].status = "fail"
    /\ proc[2].kind = "none"

\* the remote branch moves on between the failed sync and the retry
PushBeforeRetry(id, c) ==
    /\ BetweenSyncs
    /\ <<remote[id], c>> \in Pushes
    /\ remote' = [ remote EXCEPT ![id] = c ]
    /\ UNCHANGED <<repos, origin, head, disk, unreadable, table, clock, lastFull, proc>>

\* syncRepo(id) is called again
RetryStart ==
    /\ BetweenSyncs
    /\ SyncRepoStart(2, proc[1].id)

NextRetry ==
    \/ \E id \in TouchedIds, c \in Commits : PushBeforeRetry(id, c)
    \/ RetryStart
    \/ \E p \in Procs : SyncBegin(p)
    \/ \E p \in Procs : SyncFetch(p)
    \/ \E p \in Procs : SyncRevParse(p)
    \/ \E p \in Procs : SyncDiff(p)
    \/ \E p \in Procs : SyncReset(p)
    \/ \E p \in Procs : IndexRepoScan(p)
    \/ \E p \in Procs : IndexRepoDelete(p)
    \/ \E p \in Procs : IndexRepoPreDelete(p)
    \/ \E p \in Procs : IndexRepoInsert(p)
    \/ \E p \in Procs : IndexRepoFts(p)
    \/ \E p \in Procs : IndexChangesStart(p)
    \/ \E p \in Procs : IndexChangesDelete(p)
    \/ \E p \in Procs : IndexChangesFile(p)
    \/ \E p \in Procs : IndexChangesInsert(p)
    \/ \E p \in Procs : SyncPersist(p)

SpecRetry == InitRetry /\ [][NextRetry]_vars

-----------------------------------------------------------------------------
(* The specification of the Indexer called for one of two repositories:      *)
(* one call of indexRepo, indexChanges or removeIndex on a table that holds  *)
(* records of both.                                                          *)

\* the change lists indexChanges is called with; a deleted file is not on
\* disk, and its name may be any name a file can have
FrameChanges ==
    { << [ status |-> "M", path |-> PA ] >>,
      << [ status |-> "D", path |-> PA ], [ status |-> "M", path |-> PQ ] >>,
      << [ status |-> "A", path |-> PN ], [ status |-> "D", path |-> PQ ] >>,
      << [ status |-> "D", path |-> PI ] >> }

\* the working trees the Indexer is called on
FrameCommits == { "c1", "c3", "c5" }

\* both repositories are registered and indexed at c1; the working tree of
\* each is at some commit
InitFrame ==
    LET first == deriveRepoId(FirstUrl)
        rows(id) == << FileRecord(id, PA, TextA), FileRecord(id, PQ, TextA) >>
    IN
    /\ repos = << RepoConfig(first, FirstUrl, trackingMode("main"), "c1", 0),
                  RepoConfig(SecondId, [owner |-> "o", name |-> "r2", git |-> FALSE],
                             trackingMode("main"), "c1", 0) >>
    /\ remote = [ r \in RepoIds |-> "c5" ]
    /\ origin = [ r \in RepoIds |-> "c5" ]
    /\ head \in [ RepoIds -> FrameCommits ]
    /\ disk = [ r \in RepoIds |-> TreeOf(head[r]) ]
    /\ unreadable = {}
    /\ table \in { rows(first) \o rows(SecondId), rows(SecondId) \o rows(first) }
    /\ clock = 0
    /\ lastFull = [ r \in RepoIds |-> NoneOpt ]
    /\ proc = [ p \in Procs |-> IdleProc ]

\* indexer.indexRepo(id, localPath, { force })
IndexRepoCall(p, id, force) ==
    /\ proc[p].kind = "none"
    /\ proc' = [ proc EXCEPT ![p] =
                   Begin(p, [ kind |-> "indexRepo", pc |-> "ir_scan", status |-> "running",
                              id |-> id, scope |-> "full", force |-> force,
                              table0 |-> table ]) ]
    /\ UNCHANGED <<repos, remote, origin, head, disk, unreadable, table, clock, lastFull>>

\* indexer.indexChanges(id, localPath, changes)
IndexChangesCall(p, id, changes) ==
    /\ proc[p].kind = "none"
    /\ proc' = [ proc EXCEPT ![p] =
                   Begin(p, [ kind |-> "indexChanges", pc |-> "ic_start",
                              status |-> "running", id |-> id, scope |-> "changed",
                              changes |-> changes, table0 |-> table ]) ]
    /\ UNCHANGED <<repos, remote, origin, head, disk, unreadable, table, clock, lastFull>>

\* indexer.removeIndex(id)
RemoveIndexCall(p, id) ==
    /\ proc[p].kind = "none"
    /\ \E deleted \in Chance(p) :
          /\ table' = IF deleted THEN tblDeleteRepo(table, id) ELSE table
          /\ proc' = [ proc EXCEPT ![p] =
                         Upd(Begin(p, [ kind |-> "removeIndex", id |-> id, table0 |-> table ]),
                             IF deleted THEN [ status |-> "ok" ]
                             ELSE Failure("IndexError") @@ Fault(p)) ]
    /\ UNCHANGED <<repos, remote, origin, head, disk, unreadable, clock, lastFull>>

NextFrame ==
    \/ \E id \in RepoIds, force \in BOOLEAN : IndexRepoCall(1, id, force)
    \/ \E id \in RepoIds, changes \in FrameChanges : IndexChangesCall(1, id, changes)
    \/ \E id \in RepoIds : RemoveIndexCall(1, id)
    \/ IndexRepoScan(1)
    \/ IndexRepoDelete(1)
    \/ IndexRepoPreDelete(1)
    \/ IndexRepoInsert(1)
    \/ IndexRepoFts(1)
    \/ IndexChangesStart(1)
    \/ IndexChangesDelete(1)
    \/ IndexChangesFile(1)
    \/ IndexChangesInsert(1)

SpecFrame == InitFrame /\ [][NextFrame]_vars

-----------------------------------------------------------------------------
(* Properties. *)

\* worker p is in an operation, or its operation is the last thing that happened
Current(p) == proc[p].kind # "none"

\* worker p is syncing, or has just synced, a repository that is registered
InSync(p) == proc[p].kind \in SyncKinds /\ Current(p) /\ IsSome(proc[p].repo)

PreviousCommit(p) == Get(proc[p].repo).lastSyncedCommit

Persisted(data, id) == StoreGetRepo(data, id)

\* nothing but the fetched ref changed since the sync of the repository began
NothingChanged(p) ==
    /\ repos = proc[p].repos0
    /\ table = proc[p].table0
    /\ Snapshot(proc[p].id) = proc[p].tree0

\* C1: syncing a pinned repository is a no-op: no fetch, reset or ingestion
\* is performed, the persisted sync state, the working tree and the table
\* stay as they were, and the result reports updated = false.
C1_PinnedNoOp ==
    \A p \in Procs :
        (InSync(p) /\ Get(proc[p].repo).mode.tag = "pinned") =>
            /\ proc[p].log = <<>>
            /\ NothingChanged(p)
            /\ IsSome(proc[p].result)
            /\ ~Get(proc[p].result).updated
            /\ Get(proc[p].result).previousCommit = PreviousCommit(p)
            /\ proc[p].status # "fail"

\* a pinned repository whose remote has moved on has been synced
C1_Witness ==
    \E p \in Procs :
        /\ InSync(p)
        /\ Get(proc[p].repo).mode.tag = "pinned"
        /\ IsSome(proc[p].result)
        /\ remote[proc[p].id] # Get(PreviousCommit(p))

SyncFields(r) == [ lastSyncedCommit |-> r.lastSyncedCommit, lastSyncedAt |-> r.lastSyncedAt ]

\* the persisted sync state of the repository is what it was when its sync began
SyncStateKept(p) ==
    LET id == proc[p].id
    IN  /\ IsSome(Persisted(repos, id))
        /\ SyncFields(Get(Persisted(repos, id))) = SyncFields(Get(Persisted(proc[p].repos0, id)))

\* C2: when a step of a sync fails (fetch, reading the remote head, diff,
\* reset, ingestion), the sync fails, and last_synced_commit and
\* last_synced_at are what they were before the sync started.
C2_FailedStepKeepsState ==
    \A p \in Procs :
        (InSync(p) /\ proc[p].stepFailed) =>
            /\ proc[p].result = NoneOpt
            /\ SyncStateKept(p)

\* C3: sync-all leaves no registered repository unprocessed: when it ends,
\* at most the repository whose sync failed is without a result.
C3_SyncAllIndependent ==
    \A p \in Procs :
        (proc[p].kind = "syncAll" /\ Current(p) /\ Resting(p)) =>
            /\ Len(proc[p].queue) <= 1
            /\ Len(proc[p].results) + Len(proc[p].queue) = Len(proc[p].repos0)

\* the files a full-scope ingestion is to have records for
IndexablePaths(tree) ==
    { f \in Paths : tree[f] # <<>> /\ ~GlobIgnored(f) /\ ~isBinary(Get(tree[f])) }

\* a full-scope ingestion of worker p has returned its summary
FullReturned(p) ==
    /\ Current(p)
    /\ proc[p].scope = "full"
    /\ IsSome(proc[p].summary)

\* C4: after a successful full-scope ingestion the paths with a record are
\* exactly the non-ignored, non-binary files on disk.
C4_FullScopeExact ==
    \A p \in Procs :
        (FullReturned(p) /\ ~proc[p].gitFailed) =>
            StorePaths(table, proc[p].id) = IndexablePaths(disk[proc[p].id])

\* C5: the table never holds two rows for the same repository and path, at
\* any point of an operation in which every git command succeeded.
C5_OneRecordPerPath ==
    (\A p \in Procs : ~proc[p].gitFailed) =>
        \A id \in RepoIds : \A path \in Paths : RowCount(table, id, path) <= 1

\* C6: a sync of a tracking repository in which no git command failed, begun
\* with last_synced_commit equal to the commit of the working tree, ends
\* with last_synced_commit equal to the commit of the working tree.
C6_SyncedCommitIsHead ==
    \A p \in Procs :
        ( /\ InSync(p)
          /\ Resting(p)
          /\ Get(proc[p].repo).mode.tag = "tracking"
          /\ ~proc[p].gitFailed
          /\ PreviousCommit(p) = Some(proc[p].tree0[1]) ) =>
            LET r == Get(Persisted(repos, proc[p].id))
            IN  IsSome(r.lastSyncedCommit) => Get(r.lastSyncedCommit) = head[proc[p].id]

\* a sync of a tracking repository with a prior sync found a different remote
\* head and returned its result
UpdatedFromPrior(p) ==
    /\ InSync(p)
    /\ Get(proc[p].repo).mode.tag = "tracking"
    /\ IsSome(PreviousCommit(p))
    /\ IsSome(proc[p].result)
    /\ proc[p].remoteHead # Get(PreviousCommit(p))

\* the diff entries are those of the paths that differ between the two commits
ExactDiff(changes, from, to) ==
    /\ \A f \in Paths :
          (TreeOf(from)[f] # TreeOf(to)[f]) <=> (\E i \in 1..Len(changes) : changes[i].path = f)
    /\ \A i, j \in 1..Len(changes) : changes[i].path = changes[j].path => i = j

HeadUnchanged(p) ==
    /\ InSync(p)
    /\ Get(proc[p].repo).mode.tag = "tracking"
    /\ IsSome(PreviousCommit(p))
    /\ proc[p].remoteHead = Get(PreviousCommit(p))

\* C8: with a prior sync and a remote head equal to last_synced_commit, the
\* sync returns updated = false after the fetch and the reading of the head,
\* and the persisted state, the table and the working tree are unchanged.
C8_UnchangedHeadNoOp ==
    \A p \in Procs :
        HeadUnchanged(p) =>
            /\ IsSome(proc[p].result)
            /\ ~Get(proc[p].result).updated
            /\ proc[p].status # "fail"
            /\ proc[p].log = << <<"fetch">>, <<"revparse">> >>
            /\ proc[p].scope = "none"
            /\ NothingChanged(p)

\* the remote head was fetched and read, without failure, and found unchanged
C8_Witness ==
    \E p \in Procs :
        /\ HeadUnchanged(p)
        /\ ~proc[p].gitFailed
        /\ proc[p].remoteHead = remote[proc[p].id]
        /\ IsSome(proc[p].result)

\* a sync of a tracking repository that has no last_synced_commit
FirstSync(p) ==
    /\ InSync(p)
    /\ Get(proc[p].repo).mode.tag = "tracking"
    /\ PreviousCommit(p) = NoneOpt

\* C9: a sync of a tracking repository without last_synced_commit fetches,
\* reads the remote head, resets, runs full-scope ingestion and, once the
\* ingestion has returned, persists last_synced_commit = the remote head it
\* read and returns updated = true; until then nothing is persisted.
C9_FirstSyncFull ==
    \A p \in Procs :
        FirstSync(p) =>
            /\ proc[p].scope \in { "none", "full" }
            /\ IsSome(proc[p].result) =>
                  /\ Get(proc[p].result).updated
                  /\ proc[p].log = << <<"fetch">>, <<"revparse">>, <<"reset">>,
                                      <<"indexRepo">>, <<"persist">> >>
                  /\ IsSome(proc[p].summary)
                  /\ Get(Persisted(repos, proc[p].id)).lastSyncedCommit
                        = Some(proc[p].remoteHead)
                  /\ ~proc[p].gitFailed => proc[p].remoteHead = remote[proc[p].id]
            /\ proc[p].result = NoneOpt => SyncStateKept(p)

\* a first sync went through and persisted the head of the remote
C9_Witness ==
    \E p \in Procs :
        /\ FirstSync(p)
        /\ IsSome(proc[p].result)
        /\ ~proc[p].gitFailed
        /\ Get(Persisted(repos, proc[p].id)).lastSyncedCommit = Some(remote[proc[p].id])

\* a full-scope ingestion, force off, that began in the state in which the
\* previous successful full-scope ingestion of the repository ended
SecondRun(p) ==
    /\ Current(p)
    /\ proc[p].scope = "full"
    /\ proc[p].pc # "ir_scan"
    /\ proc[p].rerun
    /\ ~proc[p].force

\* C10: a full-scope ingestion run again with force off and nothing changed
\* in between queues no file, deletes no record, and leaves the table as it
\* was; its summary counts 0 files indexed and 0 deleted.
C10_FullScopeIdempotent ==
    \A p \in Procs :
        SecondRun(p) =>
            /\ proc[p].toIndex = <<>>
            /\ proc[p].toDelete = <<>>
            /\ table = proc[p].table0
            /\ IsSome(proc[p].summary) =>
                  /\ Get(proc[p].summary).filesIndexed = 0
                  /\ Get(proc[p].summary).filesDeleted = 0

\* a second run over a repository that has records has returned its summary
C10_Witness ==
    \E p \in Procs :
        /\ SecondRun(p)
        /\ IsSome(proc[p].summary)
        /\ StorePaths(table, proc[p].id) # {}

\* the rows of a repository that are not rows of the given path
OtherRows(tbl, id, f) == SelectSeq(RowsOf(tbl, id), LAMBDA r : r.path # f)

\* the paths queued for embedding, in order
QueuedPaths(p) == [ i \in 1..Len(proc[p].toIndex) |-> proc[p].toIndex[i].path ]

\* an ingestion of worker p, force off, is past its scan and has not failed; the previous run was
\* the last successful full-scope run, whose records are the records this run
\* began with; since then the bytes of the indexed file f, and nothing else
\* in the working tree, have changed, and f is still a readable text file
OnlyChanged(p, f) ==
    LET id == proc[p].id
        last == lastFull[id]
    IN  /\ Current(p)
        /\ proc[p].scope \in { "full", "changed" }
        /\ proc[p].pc \notin { "ir_scan", "ic_start" }
        /\ proc[p].status # "fail"
        /\ ~proc[p].force
        /\ IsSome(last)
        /\ Get(last)[3] = RowsOf(proc[p].table0, id)
        /\ Get(last)[2] = Locked(id)
        /\ { g \in Paths : Get(last)[1][g] # disk[id][g] } = { f }
        /\ Get(last)[1][f] # <<>>
        /\ disk[id][f] # <<>>
        /\ f \in StorePaths(proc[p].table0, id)
        /\ <<id, f>> \notin unreadable
        /\ ~isBinary(Get(disk[id][f]))

\* the second run has done its last write to the table
Written(p) ==
    \/ proc[p].scope = "full" /\ proc[p].pc = "ir_fts"
    \/ proc[p].scope = "changed" /\ IsSome(proc[p].summary)

\* C11: when the bytes of exactly one indexed file changed between two
\* ingestion runs, the second run queues that file and no other for
\* embedding, deletes no record of another file and rewrites none, and ends
\* with a record of the file that has the hash of its new bytes.
C11_OnlyChangedFileReindexed ==
    \A p \in Procs : \A f \in Paths :
        OnlyChanged(p, f) =>
            LET id == proc[p].id IN
            /\ QueuedPaths(p) = << f >>
            /\ proc[p].scope = "full" => proc[p].toDelete = <<>>
            /\ OtherRows(table, id, f) = OtherRows(proc[p].table0, id, f)
            /\ Written(p) =>
                  \E r \in Range(RowsOf(table, id)) :
                      r = FileRecord(id, f, Get(disk[id][f]))

\* the path is in the result of a search of any mode, of listFiles of any
\* directory or of globFiles of any pattern, with the default limits
Returnable(tbl, id, f) ==
    \/ \E mode \in SearchModes, query \in Queries, repo \in { NoneOpt, Some(id) } :
          \E r \in Range(search(tbl, query, mode, repo, NoneOpt)) :
              r.repo = id /\ r.path = f
    \/ \E dir \in Dirs :
          \E e \in Range(listFiles(tbl, id, dir)) : e.path = f /\ ~e.isDirectory
    \/ \E pattern \in Patterns, repo \in { NoneOpt, Some(id) } :
          \E e \in Range(globFiles(tbl, pattern, repo, NoneOpt)) :
              e.repo = id /\ e.path = f

\* the files that had a record when the ingestion began and are not on disk
RemovedFiles(p) ==
    { f \in StorePaths(proc[p].table0, proc[p].id) : disk[proc[p].id][f] = <<>> }

\* C12: when a full-scope ingestion has succeeded, a file that had a record
\* and is no longer on disk has no record, and no search mode, list_files or
\* glob_files returns its path.
C12_RemovedFileGone ==
    \A p \in Procs :
        FullReturned(p) =>
            \A f \in RemovedFiles(p) :
                /\ f \notin StorePaths(table, proc[p].id)
                /\ ~Returnable(table, proc[p].id, f)

\* a full-scope ingestion has succeeded after an indexed file was removed,
\* and the other file of the repository is still returned
C12_Witness ==
    \E p \in Procs :
        /\ FullReturned(p)
        /\ RemovedFiles(p) # {}
        /\ \E f \in Paths : Returnable(table, proc[p].id, f)

\* a changed-scope ingestion of worker p has returned its summary, in a
\* sync in which every git command succeeded
ChangedReturned(p) ==
    /\ Current(p)
    /\ proc[p].scope = "changed"
    /\ IsSome(proc[p].summary)
    /\ ~proc[p].gitFailed

\* the path is a readable, non-ignored, non-binary file of the working tree
Ingestible(id, f) ==
    /\ disk[id][f] # <<>>
    /\ <<id, f>> \notin unreadable
    /\ ~GlobIgnored(f)
    /\ ~isBinary(Get(disk[id][f]))

\* C13: after a successful changed-scope ingestion, every deleted path of
\* the change list has no record, and every added or modified path that is a
\* non-ignored, non-binary file on disk has exactly one record, with the
\* hash of the file's current bytes.
C13_ChangedScopeExact ==
    \A p \in Procs :
        ChangedReturned(p) =>
            LET id == proc[p].id IN
            \A i \in 1..Len(proc[p].changes) :
                LET c == proc[p].changes[i] IN
                /\ c.status = "D" => RowCount(table, id, c.path) = 0
                /\ (c.status \in { "A", "M" } /\ Ingestible(id, c.path)) =>
                      /\ RowCount(table, id, c.path) = 1
                      /\ \E r \in Range(RowsOf(table, id)) :
                            /\ r.path = c.path
                            /\ r.hash = hashBuffer(Get(disk[id][c.path]))

\* worker p has called the operation and the table could be opened
HasCalled(p, kind) ==
    /\ proc[p].kind = kind
    /\ proc[p].output.operation # "init"

\* the files a call has read, or tried to read, as <<repo, path>>
FilesRead(output) ==
    { << output.accessed[i][2], output.accessed[i][3] >> :
        i \in { j \in 1..Len(output.accessed) : output.accessed[j][1] = "read" } }

HasRecord(tbl, repo, path) == RowCount(tbl, repo, path) > 0

\* C14: a read of a valid path that has no record fails with not-found,
\* whether or not the file is on disk, and grep reads no file that has no
\* record.
C14_IndexIsAuthoritative ==
    \A p \in Procs :
        /\ ( /\ HasCalled(p, "readFile")
             /\ validatePath(proc[p].input.path)
             /\ ~HasRecord(table, proc[p].input.repo, proc[p].input.path) ) =>
                /\ proc[p].status = "fail"
                /\ proc[p].error = "FileNotFoundError"
        /\ HasCalled(p, "grepPattern") =>
                \A f \in FilesRead(proc[p].output) : HasRecord(table, f[1], f[2])

\* the path has a parent-directory segment or begins with "/"
Traversal(path) ==
    \/ \E i \in 1..Len(path) : path[i] = << "", "", "" >>
    \/ Len(path) >= 2 /\ path[1] = << "" >>

\* C15: a read of a path with a parent-directory segment or a leading "/"
\* is rejected by validatePath before the table is queried and before any
\* file is read; the outcome does not depend on the working tree or on the
\* records.
C15_TraversalRejected ==
    \A p \in Procs :
        (HasCalled(p, "readFile") /\ Traversal(proc[p].input.path)) =>
            proc[p].output = Failed("IndexError", "validatePath", << <<"getTable">> >>)

\* "../a.ts" has been rejected while a.ts is on disk and has a record
C15_Witness ==
    \E p \in Procs :
        /\ HasCalled(p, "readFile")
        /\ proc[p].input.path = PUp
        /\ proc[p].status = "fail"
        /\ FileAt(disk[proc[p].input.repo], PA) # <<>>
        /\ HasRecord(table, proc[p].input.repo, PA)

\* worker p has read a file with an offset and a limit of at least 1, or
\* without them
ReadInRange(p) ==
    /\ HasCalled(p, "readFile")
    /\ proc[p].status = "ok"
    /\ IsSome(proc[p].input.offset) => Get(proc[p].input.offset) >= 1
    /\ IsSome(proc[p].input.limit) => Get(proc[p].input.limit) >= 1

\* the lines of the live file the call was made for
LiveLines(p) == SplitLines(Get(FileAt(disk[proc[p].input.repo], proc[p].input.path)))

\* C16: a successful read with offset and limit returns exactly the lines
\* offset .. offset+limit-1 of the live file, clamped to its line count
\* (offset 1 and the whole file by default), reports total_lines as the line
\* count, and start_line and end_line as the numbers of the first and the
\* last returned line.
C16_ReadRange ==
    \A p \in Procs :
        ReadInRange(p) =>
            LET in == proc[p].input
                out == proc[p].output.value
                lines == LiveLines(p)
                lo == IF IsSome(in.offset) THEN Get(in.offset) ELSE 1
                hi == IF IsSome(in.limit) THEN Min(Len(lines), lo + Get(in.limit) - 1)
                      ELSE Len(lines)
            IN  /\ out.totalLines = Len(lines)
                /\ Len(out.content) = Max(0, hi - lo + 1)
                /\ \A i \in 1..Len(out.content) :
                      out.content[i] = NumberedLine(lo + i - 1, lines[lo + i - 1],
                                                    in.lineNumbers)
                /\ out.content # <<>> => out.startLine = lo /\ out.endLine = hi

\* lines 4 and 5 of a file of 5 lines have been read with offset 4, limit 5
C16_Witness ==
    \E p \in Procs :
        /\ ReadInRange(p)
        /\ proc[p].input.offset = Some(4)
        /\ proc[p].input.limit = Some(5)
        /\ proc[p].output.value.totalLines = 5
        /\ Len(proc[p].output.value.content) = 2

\* the number of output lines of a grep result
RECURSIVE OutputLines(_)
OutputLines(results) ==
    IF results = <<>> THEN 0
    ELSE Len(Head(results).matches) + OutputLines(Tail(results))

\* worker p has grepped for lines (neither files_with_matches nor count_only)
GrepLines(p) ==
    /\ HasCalled(p, "grepPattern")
    /\ proc[p].status = "ok"
    /\ ~proc[p].input.options.filesWithMatches
    /\ ~proc[p].input.options.count

\* the output budget has not cut the lines of entry k short
NotCut(p, k) ==
    \/ k < Len(proc[p].output.value)
    \/ ~IsSome(proc[p].input.options.limit)
    \/ OutputLines(proc[p].output.value) < Get(proc[p].input.options.limit)

\* C17: the lines grep returns for a file (when the output budget has not
\* cut them short) are exactly those within context_before before and
\* context_after after a matching line, in ascending order without repeats,
\* each with the text of the live file, and is_match tells whether the line
\* itself matches.
C17_GrepContextUnion ==
    \A p \in Procs :
        GrepLines(p) =>
            \A k \in 1..Len(proc[p].output.value) :
                LET e == proc[p].output.value[k]
                    opt == proc[p].input.options
                    lines == SplitLines(Get(FileAt(disk[e.repo], e.path)))
                    hit(i) == Test(proc[p].input.pattern, lines[i])
                    shown == { i \in 1..Len(lines) :
                                 \E m \in 1..Len(lines) :
                                     /\ hit(m)
                                     /\ m - opt.contextBefore <= i
                                     /\ i <= m + opt.contextAfter }
                IN  /\ \A j \in 1..Len(e.matches) :
                          /\ e.matches[j].lineNumber \in shown
                          /\ e.matches[j].content = lines[e.matches[j].lineNumber]
                          /\ e.matches[j].isMatch <=> hit(e.matches[j].lineNumber)
                          /\ j > 1 => e.matches[j - 1].lineNumber < e.matches[j].lineNumber
                    /\ NotCut(p, k) =>
                          { e.matches[j].lineNumber : j \in 1..Len(e.matches) } = shown

\* two context windows of one file have been returned as lines 1 to 5, two
\* of them matching
C17_Witness ==
    \E p \in Procs :
        /\ GrepLines(p)
        /\ proc[p].input.options.contextBefore = 1
        /\ proc[p].input.options.contextAfter = 1
        /\ \E k \in 1..Len(proc[p].output.value) :
              /\ NotCut(p, k)
              /\ Len(proc[p].output.value[k].matches) = 5
              /\ proc[p].output.value[k].matchCount = 2

\* the output lines of a grep result in order, as <<repo, path, line number>>
RECURSIVE FlatLines(_)
FlatLines(results) ==
    IF results = <<>> THEN <<>>
    ELSE [ j \in 1..Len(Head(results).matches) |->
             << Head(results).repo, Head(results).path,
                Head(results).matches[j].lineNumber >> ]
         \o FlatLines(Tail(results))

\* worker p has grepped with a limit and got a result
GrepLimited(p) ==
    /\ HasCalled(p, "grepPattern")
    /\ proc[p].status = "ok"
    /\ IsSome(proc[p].input.options.limit)

\* what the same grep returns without a limit
Unlimited(p) ==
    grepPattern(table, disk, unreadable, TRUE, proc[p].input.pattern,
                [ proc[p].input.options EXCEPT !.limit = NoneOpt ])

\* what the limit counts: files in the files_with_matches mode, else lines
BudgetUsed(p) ==
    IF proc[p].input.options.filesWithMatches THEN Len(proc[p].output.value)
    ELSE OutputLines(proc[p].output.value)

\* C18: the limit of grep is a budget over all files: the output lines are
\* the first limit output lines of the same grep without a limit (all of
\* them when there are fewer), so their number never exceeds the limit and
\* the output stops inside a file when the budget is reached there; once
\* the budget is reached no further file is read.
C18_GrepLimitIsGlobalBudget ==
    \A p \in Procs :
        GrepLimited(p) =>
            LET limit == Get(proc[p].input.options.limit)
                value == proc[p].output.value
                all == FlatLines(Unlimited(p).value)
                reads == SelectSeq(proc[p].output.accessed, LAMBDA a : a[1] = "read")
            IN  /\ OutputLines(value) <= limit
                /\ FlatLines(value) = SubSeq(all, 1, Min(limit, Len(all)))
                /\ limit = 0 => reads = <<>>
                /\ (limit > 0 /\ BudgetUsed(p) = limit) =>
                      reads[Len(reads)] =
                          << "read", value[Len(value)].repo, value[Len(value)].path >>

\* a grep with limit 2 has stopped after two of the lines it would show of
\* the first file, and has not read the second file
C18_Witness ==
    \E p \in Procs :
        /\ GrepLimited(p)
        /\ Get(proc[p].input.options.limit) = 2
        /\ Len(proc[p].output.value) = 1
        /\ Len(proc[p].output.value[1].matches) = 2
        /\ proc[p].output.value[1].matchCount = 3
        /\ Cardinality(FilesRead(proc[p].output)) = 1
        /\ Len(WhereRepo(table, proc[p].input.options.repo)) = 2

\* worker p has called grep with a pattern that is not a regular expression
GrepInvalid(p) ==
    /\ HasCalled(p, "grepPattern")
    /\ ~proc[p].input.pattern.valid

\* C19: a grep whose pattern is not a valid regular expression fails with
\* InvalidPatternError before the table is queried and before any file is
\* read, and the call leaves the table, the persisted sync state and the
\* working trees as they were.
C19_InvalidPatternFailsFirst ==
    [][ \A p \in Procs :
          (proc[p].kind = "none" /\ GrepInvalid(p)') =>
              /\ proc'[p].output =
                     Failed("InvalidPatternError", "grepPattern", << <<"getTable">> >>)
              /\ FilesRead(proc'[p].output) = {}
              /\ table' = table
              /\ repos' = repos
              /\ disk' = disk
              /\ head' = head ]_vars

\* "(" has been rejected while the table has records of files that are on disk
C19_Witness ==
    \E p \in Procs :
        /\ GrepInvalid(p)
        /\ proc[p].error = "InvalidPatternError"
        /\ \E i \in 1..Len(table) :
              FileAt(disk[table[i].repo], table[i].path) # <<>>

\* worker p has searched with a limit of 0 or less and got a result
SearchedNoLimit(p) ==
    /\ HasCalled(p, "search")
    /\ proc[p].status = "ok"
    /\ IsSome(proc[p].input.limit)
    /\ Get(proc[p].input.limit) <= 0

\* C20: in every mode, a search with a limit of 0 or less returns what the
\* same search returns with the default limit of 20.
C20_NonPositiveLimitIsDefault ==
    \A p \in Procs :
        SearchedNoLimit(p) =>
            proc[p].output.value =
                search(table, proc[p].input.query, proc[p].input.mode,
                       proc[p].input.repo, NoneOpt)

\* a git command run by worker p in this step did not exit with status 0
GitCommandFailed(p) ==
    /\ ~proc[p].gitFailed
    /\ proc'[p].gitFailed

\* C21: whenever a git command (clone, fetch, rev-parse, diff, reset) does not
\* exit with status 0, the operation of the GitClient fails with GitError and
\* the caller does not continue as after a success.
C21_NonZeroExitIsGitError ==
    [][ \A p \in Procs :
          GitCommandFailed(p) =>
              /\ proc'[p].status = "fail"
              /\ proc'[p].error = "GitError" ]_vars

\* the embedText calls of worker p that have not returned
EmbeddingsInFlight(p) == proc[p].inFlight

\* C22: within one ingestion run at most one embedding call is in flight at a
\* time, and each embedding call is made only after the previous one of the
\* run has returned.
C22_EmbeddingSequential ==
    \A p \in Procs :
        /\ Cardinality(EmbeddingsInFlight(p)) <= 1
        /\ \A j \in 2..Len(proc[p].events) :
              proc[p].events[j][1] = "call" =>
                  /\ proc[p].events[j - 1][1] = "return"
                  /\ \A k \in 1..(j - 1) :
                        proc[p].events[k][1] = "call" =>
                            \E m \in (k + 1)..(j - 1) :
                                proc[p].events[m] = << "return", proc[p].events[k][2] >>

\* a run has embedded three files, one after the other, and returned
C22_Witness ==
    \E p \in Procs :
        /\ proc[p].status = "ok"
        /\ proc[p].indexed = 3
        /\ Len(proc[p].events) = 6

\* the rebuild of the full-text index at the end of the run of worker p failed
FtsFailed(p) == proc[p].ftsBuilt = Some(FALSE)

\* C23: when the rebuild of the full-text index at the end of indexRepo
\* fails, the run still succeeds and returns its summary, and the records of
\* the repository are those the run added.
C23_FtsFailureSwallowed ==
    \A p \in Procs :
        FtsFailed(p) =>
            /\ proc[p].status = "ok"
            /\ proc[p].error = "none"
            /\ proc[p].summary =
                   Some(IndexSummary(Len(proc[p].toIndex), 0, 0))
            /\ RowsOf(table, proc[p].id) = IndexRepoRecords(proc[p].id, proc[p].toIndex)

\* a run that added two records has returned although the rebuild failed
C23_Witness ==
    \E p \in Procs :
        /\ FtsFailed(p)
        /\ proc[p].status = "ok"
        /\ Len(RowsOf(table, proc[p].id)) = 2

\* the working trees with the tree of the first repository replaced
OtherDisk(tree) == [ disk EXCEPT ![deriveRepoId(FirstUrl)] = tree ]

DiskLines(repo, path) ==
    IF FileAt(disk[repo], path) = <<>> THEN <<>>
    ELSE SplitLines(Get(FileAt(disk[repo], path)))

\* the line a read returned, without its number
ReadLine(p, i) ==
    IF proc[p].input.lineNumbers THEN proc[p].output.value.content[i][2]
    ELSE proc[p].output.value.content[i]

\* C25: read and grep serve the file as it is on disk, not the contents kept
\* in its record: every line a read returns is the line of that number of
\* the file on disk and total_lines is its line count; every line grep
\* returns is the line of that number of the file on disk, and match_count
\* counts the matching lines of the file on disk.
C25_LiveContentServed ==
    \A p \in Procs :
        /\ (HasCalled(p, "readFile") /\ proc[p].status = "ok") =>
              LET v == proc[p].output.value
                  live == DiskLines(v.repo, v.path)
              IN  /\ v.totalLines = Len(live)
                  /\ \A i \in 1..Len(v.content) :
                        /\ v.startLine + i - 1 \in 1..Len(live)
                        /\ ReadLine(p, i) = live[v.startLine + i - 1]
        /\ (HasCalled(p, "grepPattern") /\ proc[p].status = "ok") =>
              \A e \in Range(proc[p].output.value) :
                  LET live == DiskLines(e.repo, e.path) IN
                  /\ e.matchCount =
                         Cardinality({ i \in 1..Len(live) :
                                         Test(proc[p].input.pattern, live[i]) })
                  /\ \A m \in Range(e.matches) :
                        /\ m.lineNumber \in 1..Len(live)
                        /\ m.content = live[m.lineNumber]

\* a read has returned the five lines of a file whose record holds the
\* single line it had when it was indexed
C25_Witness ==
    \E p \in Procs :
        /\ HasCalled(p, "readFile")
        /\ proc[p].status = "ok"
        /\ Len(proc[p].output.value.content) = 5
        /\ \E i \in 1..Len(table) :
              /\ table[i].repo = proc[p].input.repo
              /\ table[i].path = proc[p].input.path
              /\ table[i].contents = TextA

\* the table is the one a full ingestion of the working tree of worker p's
\* repository has just left
FreshlyIngested(id) == table = IngestedTable(id, disk[id])

\* list_files of a directory surfaces the file: as a file entry when the
\* file is directly in the directory, else as the directory entry of the
\* next segment of its path
Surfaces(output, dirPath, f) ==
    /\ output.status = "ok"
    /\ \E e \in Range(output.value) :
          /\ e.path = SubSeq(f, 1, Len(dirPath) + 1)
          /\ e.isDirectory <=> (Len(f) > Len(dirPath) + 1)

\* C26: after a successful full ingestion, list_files of the root or of a
\* directory surfaces every non-ignored, non-binary file below it: the file
\* itself when it is directly in the directory, else the directory that
\* leads to it; so descending from the root reaches every such file.
C26_ListFilesComplete ==
    \A p \in Procs :
        (HasCalled(p, "listFiles") /\ FreshlyIngested(proc[p].input.repo)) =>
            \A f \in Range(WalkOrder) :
                (Ingestible(proc[p].input.repo, f) /\ Below(f, proc[p].input.path)) =>
                    Surfaces(proc[p].output, proc[p].input.path, f)

\* the immediate children of a directory among the indexed paths of a
\* repository, as paths
Children(tbl, repo, dirPath) ==
    { SubSeq(r.path, 1, Len(dirPath) + 1) :
        r \in { x \in Range(RowsOf(tbl, repo)) : Below(x.path, dirPath) } }

\* the place of a name in the alphabetical order
Alphabetical(name) == CHOOSE i \in 1..Len(NameOrder) : NameOrder[i] = name

\* worker p has listed a directory of a repository and got the entries
Listed(p) ==
    /\ HasCalled(p, "listFiles")
    /\ proc[p].status = "ok"

\* C27: list_files of a repository and directory returns exactly one entry
\* per immediate child of the directory among the indexed paths: a file
\* entry for a path directly in it, a directory entry for the next segment
\* of the paths below it; directories come before files and each group is
\* in alphabetical order.
C27_ListImmediateChildren ==
    \A p \in Procs :
        Listed(p) =>
            LET v == proc[p].output.value
                dirPath == proc[p].input.path
                rows == RowsOf(table, proc[p].input.repo)
            IN  /\ { v[i].path : i \in 1..Len(v) } =
                       Children(table, proc[p].input.repo, dirPath)
                /\ \A i, j \in 1..Len(v) : v[i].path = v[j].path => i = j
                /\ \A i \in 1..Len(v) :
                      /\ v[i].filename = v[i].path[Len(dirPath) + 1]
                      /\ v[i].isDirectory <=> ~(\E r \in Range(rows) : r.path = v[i].path)
                /\ \A i, j \in 1..Len(v) :
                      i < j =>
                          \/ v[i].isDirectory /\ ~v[j].isDirectory
                          \/ /\ v[i].isDirectory = v[j].isDirectory
                             /\ Alphabetical(v[i].filename) < Alphabetical(v[j].filename)

\* worker p has called addRepo for a repository that was registered already
DuplicateAdd(p) ==
    /\ proc[p].kind = "addRepo"
    /\ \E i \in 1..Len(proc[p].repos0) : proc[p].repos0[i].id = proc[p].id

\* C28: addRepo of a repository whose id is registered already fails with
\* RepoAlreadyExistsError; it makes no clone, no change to the persisted list
\* of repositories and no ingestion: the table and the working tree stay as
\* they were.
C28_DuplicateAddRejected ==
    \A p \in Procs :
        DuplicateAdd(p) =>
            /\ proc[p].status = "fail"
            /\ proc[p].error = "RepoAlreadyExistsError"
            /\ proc[p].log = <<>>
            /\ proc[p].scope = "none"
            /\ NothingChanged(p)

\* addRepo has been refused for a repository that is registered and cloned
C28_Witness ==
    \E p \in Procs :
        /\ DuplicateAdd(p)
        /\ proc[p].error = "RepoAlreadyExistsError"
        /\ head[proc[p].id] # NoCommit

\* worker p has called the operation of the RepoStore and it has saved
Saved(p, kind) ==
    /\ proc[p].kind = kind
    /\ proc[p].status = "ok"

\* C29: after updateRepo(id, update) the list has the same repositories in
\* the same order; the repository of that id has the values of the update
\* in the fields the update names and its old values in all others; every
\* other repository is as it was; with no repository of that id the list is
\* as it was.
C29_UpdateRepoExact ==
    \A p \in Procs :
        Saved(p, "updateRepo") =>
            LET before == proc[p].repos0
                update == proc[p].input.update
            IN  /\ Len(repos) = Len(before)
                /\ \A i \in 1..Len(before) :
                      IF before[i].id = proc[p].input.id
                      THEN /\ DOMAIN repos[i] = DOMAIN before[i]
                           /\ \A k \in DOMAIN before[i] :
                                 repos[i][k] = IF k \in DOMAIN update THEN update[k]
                                               ELSE before[i][k]
                      ELSE repos[i] = before[i]
                /\ (\A i \in 1..Len(before) : before[i].id # proc[p].input.id) =>
                      repos = before

\* the sync state of one of two repositories has been updated
C29_Witness ==
    \E p \in Procs :
        /\ Saved(p, "updateRepo")
        /\ Len(repos) = 2
        /\ \E i \in 1..2 :
              /\ repos[i].id = proc[p].input.id
              /\ repos[i].lastSyncedCommit = Some("c2")
              /\ proc[p].repos0[i].lastSyncedCommit # Some("c2")

\* C30: after removeRepo(id) the list has no repository of that id and the
\* other repositories are as they were, in the same order; with no
\* repository of that id the call succeeds and the list is as it was.
C30_RemoveRepoExact ==
    \A p \in Procs :
        Saved(p, "removeRepo") =>
            LET before == proc[p].repos0
                id == proc[p].input.id
            IN  /\ \A i \in 1..Len(repos) : repos[i].id # id
                /\ repos = SelectSeq(before, LAMBDA r : r.id # id)
                /\ (\A i \in 1..Len(before) : before[i].id # id) => repos = before

\* one of two repositories has been removed and the other one is left
C30_Witness ==
    \E p \in Procs :
        /\ Saved(p, "removeRepo")
        /\ Len(proc[p].repos0) = 2
        /\ Len(repos) = 1

\* the last_synced_commit the persisted list shows for a repository
SyncedCommitOf(data, id) ==
    IF IsSome(StoreGetRepo(data, id)) THEN Get(StoreGetRepo(data, id)).lastSyncedCommit
    ELSE NoneOpt

\* worker p is in an addRepo or a sync of a repository whose ingestion has
\* not completed: it has not begun, is running, or has failed
IngestionPending(p) ==
    /\ proc[p].kind \in { "addRepo" } \cup SyncKinds
    /\ proc[p].id # NoId
    /\ ~IsSome(proc[p].summary)

\* C31: last_synced_commit is set to a commit only after an ingestion of the
\* working tree at that commit has completed successfully: as long as the
\* ingestion of an addRepo or a sync has not completed, and after it has
\* failed, the persisted list shows for the repository the last_synced_commit
\* it showed when the operation began (none for a repository being added).
C31_SyncedOnlyAfterIngestion ==
    \A p \in Procs :
        IngestionPending(p) =>
            SyncedCommitOf(repos, proc[p].id) = SyncedCommitOf(proc[p].repos0, proc[p].id)

\* the (path, content_hash) pairs of the records of a repository
PathHashes(tbl, id) == { <<r.path, r.hash>> : r \in Range(RowsOf(tbl, id)) }

\* the table a full-scope run, force off, that begins with the given table
\* leaves when none of its steps fails: the scan, the deletes of the removed
\* files, the deletes of the queued files (a rejected one is ignored) and the
\* batched insert
FullRunTable(tbl, id, tree, locked) ==
    LET byPath == existingByPath(RowsOf(tbl, id))
        toIndex == ScanToIndex(tree, locked, byPath, FALSE)
        queued == { toIndex[i].path : i \in 1..Len(toIndex) }
        removed == Range(ScanToDelete(tree, byPath))
        deleted == { f \in removed \cup queued : ~DeleteRejected(id, f) }
    IN  tblAdd(SelectSeq(tbl, LAMBDA r : ~(r.repo = id /\ r.path \in deleted)),
               IndexRepoRecords(id, toIndex))

\* a full-scope run on the tree has no delete that fails it
FullRunSucceeds(tbl, id, tree) ==
    \A f \in Range(ScanToDelete(tree, existingByPath(RowsOf(tbl, id)))) :
        ~DeleteRejected(id, f)

\* a changed-scope ingestion of a sync in which every git command succeeded
\* has returned; it began with the records the last successful full-scope
\* run left for the tree of the previous commit, and its change list is the
\* exact diff from that tree to the working tree
RefinesFrom(p) ==
    LET id == proc[p].id IN
    /\ ChangedReturned(p)
    /\ InSync(p)
    /\ IsSome(PreviousCommit(p))
    /\ lastFull[id] = Some(<< TreeOf(Get(PreviousCommit(p))), Locked(id),
                              RowsOf(proc[p].table0, id) >>)
    /\ ExactDiff(proc[p].changes, Get(PreviousCommit(p)), proc[p].remoteHead)
    /\ disk[id] = TreeOf(proc[p].remoteHead)
    /\ FullRunSucceeds(proc[p].table0, id, disk[id])

\* C32: changed-scope ingestion refines full-scope ingestion: begun with the
\* records a successful full-scope run left for the old tree and given the
\* exact diff from the old tree to the new one, it leaves the same set of
\* (path, content_hash) records as a full-scope run on the new tree would.
C32_ChangedRefinesFull ==
    \A p \in Procs :
        RefinesFrom(p) =>
            PathHashes(table, proc[p].id)
                = PathHashes(FullRunTable(proc[p].table0, proc[p].id, disk[proc[p].id],
                                          LockedPaths(proc[p].id)),
                             proc[p].id)

\* both workers have synced, each a repository of its own, and both syncs
\* have returned updated = true
BothSynced ==
    /\ \A p \in Procs :
          /\ proc[p].kind = "syncRepo"
          /\ proc[p].status = "ok"
          /\ IsSome(proc[p].result)
          /\ Get(proc[p].result).updated
    /\ \A p, q \in Procs : p # q => proc[p].id # proc[q].id

\* C33: when two different repositories are synced at the same time and both
\* syncs succeed, the persisted list holds the new last_synced_commit of
\* both repositories.
C33_ConcurrentSyncsBothPersisted ==
    BothSynced =>
        \A p \in Procs :
            SyncedCommitOf(repos, proc[p].id) = Some(Get(proc[p].result).currentCommit)

\* both workers have run an ingestion of the same repository and both
\* ingestions have returned
BothIngested(id) ==
    \A p \in Procs :
        /\ proc[p].id = id
        /\ proc[p].scope \in { "full", "changed" }
        /\ IsSome(proc[p].summary)

\* C35: when two ingestion runs of the same repository interleave, the table
\* never holds two records for the same (repository, path), and after both
\* have completed every record's content_hash is the hash of the file that
\* is on disk.
C35_InterleavedRunsKeepOneRecord ==
    /\ \A id \in RepoIds : \A path \in Paths : RowCount(table, id, path) <= 1
    /\ \A id \in RepoIds :
          BothIngested(id) =>
              \A r \in Range(RowsOf(table, id)) :
                  /\ disk[id][r.path] # <<>>
                  /\ r.hash = hashBuffer(Get(disk[id][r.path]))

\* the table a changed-scope run leaves for the added and modified paths
\* when none of its steps fails: per file the checks that skip it, the delete
\* of its record (a rejected one is ignored) and the insert
RECURSIVE ChangedRunFiles(_, _, _, _, _)
ChangedRunFiles(tbl, id, paths, tree, locked) ==
    IF paths = <<>> THEN tbl
    ELSE LET f == Head(paths)
             cleared == IF DeleteRejected(id, f) THEN tbl ELSE tblDelete(tbl, id, f)
         IN  ChangedRunFiles(IF ChangeSkipped(tree, locked, f) THEN tbl
                             ELSE tblAdd(cleared, << FileRecord(id, f, Get(tree[f])) >>),
                             id, Tail(paths), tree, locked)

\* the table a changed-scope run over the change list leaves
ChangedRunTable(tbl, id, changes, tree, locked) ==
    LET deleted == { f \in Range(ChangedPaths(changes, {"D"})) : ~DeleteRejected(id, f) }
    IN  ChangedRunFiles(SelectSeq(tbl, LAMBDA r : ~(r.repo = id /\ r.path \in deleted)),
                        id, ChangedPaths(changes, {"A", "M"}), tree, locked)

\* the table the ingestion of a sync from the previous commit to the remote
\* head leaves, begun with the given table
CleanSyncTable(tbl, id, previousCommit, remoteHead, tree, locked) ==
    LET changes == IF IsSome(previousCommit)
                   THEN DiffNameStatus(Get(previousCommit), remoteHead)
                   ELSE <<>>
    IN  IF ChooseScope(changes) = "changed"
        THEN ChangedRunTable(tbl, id, changes, tree, locked)
        ELSE FullRunTable(tbl, id, tree, locked)

\* the ingestion of the first sync failed after the reset, and the retry of
\* the same repository has succeeded
Retried ==
    /\ proc[1].kind = "syncRepo"
    /\ proc[1].status = "fail"
    /\ proc[1].scope \in { "full", "changed" }
    /\ proc[1].error = "IndexError"
    /\ proc[2].kind = "syncRepo"
    /\ proc[2].id = proc[1].id
    /\ proc[2].status = "ok"
    /\ IsSome(proc[2].result)
    /\ Get(proc[2].result).updated

\* C34: when a sync has failed in its ingestion, after the reset, the next
\* sync of the repository that succeeds leaves the same records of the
\* repository as a sync from the last known-good commit to the same remote
\* head leaves when it starts from the records the failed sync started from.
C34_RetryConverges ==
    Retried =>
        LET id == proc[2].id IN
        PathHashes(table, id)
            = PathHashes(CleanSyncTable(proc[1].table0, id, Get(proc[1].repo).lastSyncedCommit,
                                        proc[2].remoteHead, disk[id], LockedPaths(id)),
                         id)

\* the full-scope run of the first sync failed, and the full-scope run of
\* the next sync of the repository, force off, has returned its summary
FullRetried ==
    /\ proc[1].kind = "syncRepo"
    /\ proc[1].status = "fail"
    /\ proc[1].scope = "full"
    /\ proc[1].error = "IndexError"
    /\ FullReturned(2)
    /\ proc[2].id = proc[1].id
    /\ ~proc[2].force

\* the files that had a record when the failed run began and had none when
\* the next run began, and that are readable text files on disk
LostRecords ==
    { f \in StorePaths(proc[1].table0, proc[1].id) \ StorePaths(proc[2].table0, proc[1].id) :
        Ingestible(proc[1].id, f) }

\* C36: every file whose record a failed full-scope run deleted without
\* inserting it again is queued by the next successful full-scope run, force
\* off, and has a record with the hash of its bytes afterwards.
C36_FailedFullRunRepaired ==
    FullRetried =>
        \A f \in LostRecords :
            /\ f \in Range(QueuedPaths(2))
            /\ \E r \in Range(RowsOf(table, proc[2].id)) :
                  r = FileRecord(proc[2].id, f, Get(disk[proc[2].id][f]))

\* the insert of the first run failed after the record of a file was deleted,
\* and the next run found the working tree at the same commit
C36_Witness ==
    /\ FullRetried
    /\ LostRecords # {}
    /\ proc[2].remoteHead = proc[1].remoteHead
    /\ proc[2].tree0 = Snapshot(proc[2].id)

\* removeRepo of worker p has returned without an error
Removed(p) ==
    /\ proc[p].kind = "removeRepo"
    /\ proc[p].status = "ok"

\* C37: with the operations run one at a time, whether they succeed or fail
\* part-way, every repository that has a record in the table is in the
\* persisted list, and after a successful removeRepo the table has no record
\* of the removed repository.
C37_NoOrphanedRecords ==
    /\ \A id \in RepoIds :
          RowsOf(table, id) # <<>> => IsSome(StoreGetRepo(repos, id))
    /\ \A p \in Procs :
          Removed(p) =>
              /\ RowsOf(table, proc[p].id) = <<>>
              /\ ~IsSome(StoreGetRepo(repos, proc[p].id))

\* a repository that had records has been removed
C37_Witness ==
    \E p \in Procs :
        /\ Removed(p)
        /\ RowsOf(proc[p].table0, proc[p].id) # <<>>

\* worker p is in a call of the Indexer for a repository, or the call has
\* ended
IndexerCalled(p) ==
    /\ proc[p].kind \in { "indexRepo", "indexChanges", "removeIndex" }
    /\ proc[p].id # NoId

\* C38: indexRepo, indexChanges and removeIndex called for one repository
\* leave the records of every other repository as they were when the call
\* began: none added, none deleted, none changed.
C38_OtherRepositoriesUntouched ==
    \A p \in Procs :
        IndexerCalled(p) =>
            \A other \in RepoIds \ { proc[p].id } :
                RowsOf(table, other) = RowsOf(proc[p].table0, other)

\* worker p has called readFile for a file that has a record and that is on
\* disk and can be read
ReadOfIndexedFile(p) ==
    /\ HasCalled(p, "readFile")
    /\ HasRecord(table, proc[p].input.repo, proc[p].input.path)
    /\ FileAt(disk[proc[p].input.repo], proc[p].input.path) # <<>>
    /\ proc[p].input.path \notin LockedPaths(proc[p].input.repo)

\* C39: every read of a (repository, path) that has a record and whose file
\* is on disk succeeds, and validatePath rejects only paths that have a
\* parent-directory segment or begin with "/".
C39_IndexedFilesReadable ==
    \A p \in Procs :
        /\ ReadOfIndexedFile(p) => proc[p].status = "ok"
        /\ ( /\ HasCalled(p, "readFile")
             /\ proc[p].output.operation = "validatePath" ) =>
                Traversal(proc[p].input.path)

\* C40: for every offset and limit a successful read reports start_line and
\* end_line within 1..total_lines and returns exactly the lines start_line
\* through end_line of the live file, none when the requested range is empty.
C40_ReadRangeAnyInput ==
    \A p \in Procs :
        (HasCalled(p, "readFile") /\ proc[p].status = "ok") =>
            LET in == proc[p].input
                out == proc[p].output.value
                lines == LiveLines(p)
                lo == IF IsSome(in.offset) THEN Get(in.offset) ELSE 1
                count == IF IsSome(in.limit) THEN Get(in.limit) ELSE Len(lines)
                empty == count <= 0 \/ lo > Len(lines)
            IN  /\ out.startLine \in 1..out.totalLines
                /\ out.endLine \in 1..out.totalLines
                /\ empty => out.content = <<>>
                /\ ~empty =>
                      /\ Len(out.content) = out.endLine - out.startLine + 1
                      /\ \A i \in 1..Len(out.content) :
                            /\ out.startLine + i - 1 \in 1..Len(lines)
                            /\ out.content[i] =
                                  NumberedLine(out.startLine + i - 1,
                                               lines[out.startLine + i - 1],
                                               in.lineNumbers)

====
